---- MODULE Spec2Model ----
(***************************************************************************)
(* Webhook signature utilities of the JewelMusic Python SDK                *)
(* (jewelmusic_sdk/resources/webhooks.py): create_signature and            *)
(* verify_signature, with the string, integer and UTF-8 conversions they   *)
(* are built from.                                                         *)
(*                                                                         *)
(* Text is a sequence of code points, a byte string a sequence of bytes.   *)
(* A Python value whose type matters is a record tagged with its type.     *)
(***************************************************************************)
EXTENDS Integers, Sequences, FiniteSets, TLC

----------------------------------------------------------------------------
(* Bounds of the model. *)

MaxPayloadLen == 2   \* longest payload, in bytes
MaxTicks == 1        \* seconds the clock advances during one behaviour
MaxTolerance == 1    \* largest tolerance the receiver is configured with

----------------------------------------------------------------------------
(* Characters of the header grammar, as code points. *)

cComma == 44
cEq == 61
cDot == 46
cMinus == 45
cPlus == 43
cUnderscore == 95
cSpace == 32
cZero == 48
cOne == 49
cNine == 57
cLowerA == 97
cT == 116
cV == 118
cX == 120

----------------------------------------------------------------------------
(* Python values. *)

Str(s) == [ty |-> "str", v |-> s]
Bytes(b) == [ty |-> "bytes", v |-> b]
NoneV == [ty |-> "none", v |-> <<>>]

IntV(n) == [ty |-> "int", n |-> n]
NoneT == [ty |-> "none", n |-> 0]

(* What a call does: it returns a value or raises an exception. *)
Return(x) == [kind |-> "return", val |-> x]
Raise(e) == [kind |-> "raise", exc |-> e]
NotCalled == [kind |-> "none"]

(* The exception classes involved and their base classes. *)
BaseOf(e) ==
  CASE e = "UnicodeDecodeError" -> "UnicodeError"
    [] e = "UnicodeEncodeError" -> "UnicodeError"
    [] e = "UnicodeError" -> "ValueError"
    [] e = "JSONDecodeError" -> "ValueError"
    [] e = "RecursionError" -> "RuntimeError"
    [] e = "KeyError" -> "LookupError"
    [] OTHER -> "Exception"

RECURSIVE IsSubclass(_, _)
IsSubclass(e, c) ==
  IF e = c THEN TRUE
  ELSE IF e = "Exception" THEN FALSE
  ELSE IsSubclass(BaseOf(e), c)

----------------------------------------------------------------------------
(* Strings. *)

Abs(n) == IF n < 0 THEN -n ELSE n

(* str.startswith *)
StartsWith(s, p) ==
  /\ Len(s) >= Len(p)
  /\ SubSeq(s, 1, Len(p)) = p

(* Index of the first occurrence of the character c in s, 0 when absent. *)
IndexOf(s, c) ==
  IF \E i \in 1..Len(s) : s[i] = c
  THEN CHOOSE i \in 1..Len(s) : s[i] = c /\ \A j \in 1..(i - 1) : s[j] # c
  ELSE 0

(* str.split(sep) for a one-character separator. *)
RECURSIVE Split(_, _)
Split(s, sep) ==
  LET i == IndexOf(s, sep)
  IN IF i = 0 THEN <<s>>
     ELSE <<SubSeq(s, 1, i - 1)>> \o Split(SubSeq(s, i + 1, Len(s)), sep)

(* ",".join(parts) *)
RECURSIVE Join(_, _)
Join(parts, sep) ==
  IF Len(parts) = 0 THEN <<>>
  ELSE IF Len(parts) = 1 THEN parts[1]
  ELSE parts[1] \o <<sep>> \o Join(Tail(parts), sep)

(* FirstMatch with the tokens taken by position: t first, v1 second. *)
FirstMatch_Positional(elements, prefix) ==
  LET i == IF prefix[1] = cT THEN 1 ELSE 2
  IN IF Len(elements) >= i /\ StartsWith(elements[i], prefix)
     THEN [found |-> TRUE, el |-> elements[i]]
     ELSE [found |-> FALSE, el |-> <<>>]

(* next((el for el in elements if el.startswith(prefix)), None) *)
FirstMatch(elements, prefix) ==
  IF \E i \in 1..Len(elements) : StartsWith(elements[i], prefix)
  THEN LET i == CHOOSE k \in 1..Len(elements) :
                  /\ StartsWith(elements[k], prefix)
                  /\ \A j \in 1..(k - 1) : ~StartsWith(elements[j], prefix)
       IN [found |-> TRUE, el |-> elements[i]]
  ELSE [found |-> FALSE, el |-> <<>>]

----------------------------------------------------------------------------
(* Integers and their decimal text. *)

RECURSIVE Digits(_)
Digits(n) ==
  IF n < 10 THEN <<cZero + n>>
  ELSE Digits(n \div 10) \o <<cZero + (n % 10)>>

(* f"{ts}" for an int *)
IntToStr(n) == IF n < 0 THEN <<cMinus>> \o Digits(-n) ELSE Digits(n)

IsDigit(c) == c >= cZero /\ c <= cNine

IsSpace(c) == c \in {9, 10, 11, 12, 13, 28, 29, 30, 31, 32}

RECURSIVE Strip(_)
Strip(s) ==
  IF Len(s) = 0 THEN s
  ELSE IF IsSpace(s[1]) THEN Strip(Tail(s))
  ELSE IF IsSpace(s[Len(s)]) THEN Strip(SubSeq(s, 1, Len(s) - 1))
  ELSE s

RECURSIVE DigitsValue(_)
DigitsValue(s) ==
  IF Len(s) = 0 THEN 0
  ELSE LET c == s[Len(s)]
           rest == SubSeq(s, 1, Len(s) - 1)
       IN IF c = cUnderscore THEN DigitsValue(rest)
          ELSE 10 * DigitsValue(rest) + (c - cZero)

(* int(s) for a str, base 10: surrounding whitespace, one optional sign,   *)
(* digits that single underscores may separate.                            *)
ParseInt(s) ==
  LET t == Strip(s)
      signed == Len(t) > 0 /\ t[1] \in {cPlus, cMinus}
      body == IF signed THEN Tail(t) ELSE t
      wellFormed ==
        /\ Len(body) > 0
        /\ IsDigit(body[1])
        /\ IsDigit(body[Len(body)])
        /\ \A i \in 1..Len(body) : IsDigit(body[i]) \/ body[i] = cUnderscore
        /\ \A i \in 1..(Len(body) - 1) :
             ~(body[i] = cUnderscore /\ body[i + 1] = cUnderscore)
  IN IF ~wellFormed THEN [ok |-> FALSE, n |-> 0]
     ELSE [ok |-> TRUE,
           n |-> IF signed /\ t[1] = cMinus
                 THEN -DigitsValue(body) ELSE DigitsValue(body)]

----------------------------------------------------------------------------
(* UTF-8. *)

IsCont(b) == b >= 128 /\ b <= 191

(* bytes.decode('utf-8'), strict: the code points, or no result where the  *)
(* bytes are not well-formed UTF-8 (UnicodeDecodeError).  A long input is  *)
(* decoded in two parts, cut before a byte that starts a character (four   *)
(* continuation bytes in a row are never well-formed).                     *)
RECURSIVE Utf8Decode(_)
Utf8Decode(b) ==
  IF Len(b) = 0 THEN [ok |-> TRUE, s |-> <<>>]
  ELSE IF Len(b) > 8
    THEN LET cuts == {m \in (Len(b) \div 2)..(Len(b) - 1) : ~IsCont(b[m + 1])}
         IN IF cuts = {} THEN [ok |-> FALSE, s |-> <<>>]
            ELSE LET m == CHOOSE c \in cuts : \A d \in cuts : c <= d
                     left == Utf8Decode(SubSeq(b, 1, m))
                     right == Utf8Decode(SubSeq(b, m + 1, Len(b)))
                 IN IF left.ok /\ right.ok
                    THEN [ok |-> TRUE, s |-> left.s \o right.s]
                    ELSE [ok |-> FALSE, s |-> <<>>]
  ELSE
    LET b0 == b[1]
        n == IF b0 < 128 THEN 1
             ELSE IF b0 >= 194 /\ b0 <= 223 THEN 2
             ELSE IF b0 >= 224 /\ b0 <= 239 THEN 3
             ELSE IF b0 >= 240 /\ b0 <= 244 THEN 4
             ELSE 0
        wellFormed ==
          /\ n > 0
          /\ Len(b) >= n
          /\ \A i \in 2..n : IsCont(b[i])
          /\ (b0 = 224 => b[2] >= 160)
          /\ (b0 = 237 => b[2] <= 159)
          /\ (b0 = 240 => b[2] >= 144)
          /\ (b0 = 244 => b[2] <= 143)
        cp == CASE n = 1 -> b0
                [] n = 2 -> (b0 - 192) * 64 + (b[2] - 128)
                [] n = 3 -> (b0 - 224) * 4096 + (b[2] - 128) * 64 + (b[3] - 128)
                [] OTHER -> (b0 - 240) * 262144 + (b[2] - 128) * 4096
                              + (b[3] - 128) * 64 + (b[4] - 128)
    IN IF ~wellFormed THEN [ok |-> FALSE, s |-> <<>>]
       ELSE LET rest == Utf8Decode(SubSeq(b, n + 1, Len(b)))
            IN IF rest.ok THEN [ok |-> TRUE, s |-> <<cp>> \o rest.s]
               ELSE rest

IsSurrogate(cp) == cp >= 55296 /\ cp <= 57343

(* str.encode('utf-8'), strict: the bytes, or no result for a text that    *)
(* holds a lone surrogate (UnicodeEncodeError).  A long text is encoded in *)
(* two parts.                                                              *)
RECURSIVE Utf8Encode(_)
Utf8Encode(s) ==
  IF Len(s) = 0 THEN [ok |-> TRUE, b |-> <<>>]
  ELSE IF Len(s) > 8
    THEN LET m == Len(s) \div 2
             left == Utf8Encode(SubSeq(s, 1, m))
             right == Utf8Encode(SubSeq(s, m + 1, Len(s)))
         IN IF left.ok /\ right.ok
            THEN [ok |-> TRUE, b |-> left.b \o right.b]
            ELSE [ok |-> FALSE, b |-> <<>>]
  ELSE
    LET cp == s[1]
        enc == IF cp < 128 THEN <<cp>>
               ELSE IF cp < 2048 THEN <<192 + (cp \div 64), 128 + (cp % 64)>>
               ELSE IF cp < 65536
                 THEN <<224 + (cp \div 4096), 128 + ((cp \div 64) % 64),
                        128 + (cp % 64)>>
               ELSE <<240 + (cp \div 262144), 128 + ((cp \div 4096) % 64),
                      128 + ((cp \div 64) % 64), 128 + (cp % 64)>>
    IN IF IsSurrogate(cp) THEN [ok |-> FALSE, b |-> <<>>]
       ELSE LET rest == Utf8Encode(Tail(s))
            IN IF rest.ok THEN [ok |-> TRUE, b |-> enc \o rest.b]
               ELSE rest

----------------------------------------------------------------------------
(* HMAC-SHA256, idealised: the digest is an injective function of the key  *)
(* as HMAC uses it and of the message, printed in lowercase hexadecimal.   *)

HexChar(d) == IF d < 10 THEN cZero + d ELSE cLowerA + (d - 10)

Hex(b) ==
  [i \in 1..(2 * Len(b)) |->
     IF i % 2 = 1 THEN HexChar(b[(i + 1) \div 2] \div 16)
     ELSE HexChar(b[i \div 2] % 16)]

RECURSIVE StripZeros(_)
StripZeros(k) ==
  IF Len(k) > 0 /\ k[Len(k)] = 0 THEN StripZeros(SubSeq(k, 1, Len(k) - 1))
  ELSE k

(* HMAC pads a key shorter than the hash's block (64 bytes for SHA-256)    *)
(* with zero bytes up to the block: keys that differ only in trailing zero *)
(* bytes are one key.  The key without its trailing zeros stands for the   *)
(* padded block.  (A longer key is hashed first; the secrets here are      *)
(* shorter.)                                                               *)
HmacKey(key) == StripZeros(key)

(* hmac.new(key, msg, hashlib.sha256).hexdigest() *)
HexDigest(key, msg) ==
  LET k == HmacKey(key)
  IN Hex(<<Len(k)>> \o k \o msg)

(* hmac.compare_digest(a, b) for two str: TypeError unless both are ASCII. *)
CompareDigest(a, b) ==
  IF \E i \in 1..Len(a) : a[i] > 127 THEN Raise("TypeError")
  ELSE IF \E i \in 1..Len(b) : b[i] > 127 THEN Raise("TypeError")
  ELSE Return(a = b)

----------------------------------------------------------------------------
(* The two signature operations. *)

(* payload.encode('utf-8') if isinstance(payload, str) else payload *)
PayloadBytes(payload) ==
  IF payload.ty = "str"
  THEN LET e == Utf8Encode(payload.v)
       IN IF e.ok THEN Return(Bytes(e.b)) ELSE Raise("UnicodeEncodeError")
  ELSE Return(payload)

(* SignedPayload with the payload left out of the signed text. *)
SignedPayload_TimestampOnly(ts, payload) ==
  LET pb == PayloadBytes(payload)
  IN IF pb.kind = "raise" THEN pb
     ELSE IF pb.val.ty # "bytes" THEN Raise("AttributeError")
     ELSE Return(IntToStr(ts) \o <<cDot>>)

(* SignedPayload with the timestamp left out of the signed text. *)
SignedPayload_PayloadOnly(ts, payload) ==
  LET pb == PayloadBytes(payload)
  IN IF pb.kind = "raise" THEN pb
     ELSE IF pb.val.ty # "bytes" THEN Raise("AttributeError")
     ELSE LET d == Utf8Decode(pb.val.v)
          IN IF ~d.ok THEN Raise("UnicodeDecodeError")
             ELSE Return(d.s)

(* f"{ts}.{payload_bytes.decode('utf-8')}" *)
SignedPayload(ts, payload) ==
  LET pb == PayloadBytes(payload)
  IN IF pb.kind = "raise" THEN pb
     ELSE IF pb.val.ty # "bytes" THEN Raise("AttributeError")
     ELSE LET d == Utf8Decode(pb.val.v)
          IN IF ~d.ok THEN Raise("UnicodeDecodeError")
             ELSE Return(IntToStr(ts) \o <<cDot>> \o d.s)

(* HmacHex keyed with the empty key, whatever the secret. *)
HmacHex_NoSecret(secret, signed_payload) ==
  LET m == Utf8Encode(signed_payload)
  IN IF ~m.ok THEN Raise("UnicodeEncodeError")
     ELSE Return(HexDigest(<<>>, m.b))

(* hmac.new(secret.encode('utf-8'), signed_payload.encode('utf-8'),        *)
(*          hashlib.sha256).hexdigest()                                    *)
HmacHex(secret, signed_payload) ==
  LET k == Utf8Encode(secret)
      m == Utf8Encode(signed_payload)
  IN IF ~k.ok \/ ~m.ok THEN Raise("UnicodeEncodeError")
     ELSE Return(HexDigest(k.b, m.b))

TPrefix == <<cT, cEq>>
V1Prefix == <<cV, cOne, cEq>>

(* f"t={ts},v1={hash_value}" *)
FormatHeader(ts, hash_value) ==
  TPrefix \o IntToStr(ts) \o <<cComma>> \o V1Prefix \o hash_value

(* ts = timestamp or int(time.time()) *)
SignTimestamp(timestamp, clock) ==
  IF timestamp.ty = "none" \/ timestamp.n = 0 THEN clock ELSE timestamp.n

(* WebhooksResource.create_signature(payload, secret, timestamp), called   *)
(* when time.time() is clock.                                              *)
create_signature(payload, secret, timestamp, clock) ==
  LET ts == SignTimestamp(timestamp, clock)
      sp == SignedPayload(ts, payload)
  IN IF sp.kind = "raise" THEN sp
     ELSE LET h == HmacHex(secret, sp.val)
          IN IF h.kind = "raise" THEN h
             ELSE Return(FormatHeader(ts, h.val))

(* The value of a token as verify_signature reads it: el.split('=')[1] *)
TokenValue(el) == Split(el, cEq)[2]

(* OutOfTolerance with >= for >, and with the difference's sign kept. *)
OutOfTolerance_Boundary(clock, timestamp, tolerance) ==
  Abs(clock - timestamp) >= tolerance

OutOfTolerance_PastOnly(clock, timestamp, tolerance) ==
  clock - timestamp > tolerance

(* abs(now - timestamp) > tolerance *)
OutOfTolerance(clock, timestamp, tolerance) ==
  Abs(clock - timestamp) > tolerance

(* The body of the try statement of verify_signature. *)
VerifyBody(payload, signature, secret, tolerance, clock) ==
  IF signature.ty = "none" THEN Raise("AttributeError")
  ELSE IF signature.ty # "str" THEN Raise("TypeError")
  ELSE
    LET elements == Split(signature.v, cComma)
        timestamp_element == FirstMatch(elements, TPrefix)
        hash_element == FirstMatch(elements, V1Prefix)
    IN IF ~timestamp_element.found \/ ~hash_element.found THEN Return(FALSE)
       ELSE
         LET timestamp == ParseInt(TokenValue(timestamp_element.el))
             received_hash == TokenValue(hash_element.el)
         IN IF ~timestamp.ok THEN Raise("ValueError")
            ELSE IF OutOfTolerance(clock, timestamp.n, tolerance)
              THEN Return(FALSE)
            ELSE
              LET sp == SignedPayload(timestamp.n, payload)
              IN IF sp.kind = "raise" THEN sp
                 ELSE LET expected_hash == HmacHex(secret, sp.val)
                      IN IF expected_hash.kind = "raise" THEN expected_hash
                         ELSE CompareDigest(received_hash, expected_hash.val)

(* The except clause with a class missing. *)
ExceptClause_NoValueError == {"TypeError", "AttributeError"}

ExceptClause_OnlyValueError == {"ValueError"}

(* except (ValueError, TypeError, AttributeError) *)
ExceptClause == {"ValueError", "TypeError", "AttributeError"}

(* try: ... except (ValueError, TypeError, AttributeError): return False *)
TryExcept(r) ==
  IF r.kind = "raise" /\ \E c \in ExceptClause : IsSubclass(r.exc, c)
  THEN Return(FALSE)
  ELSE r

(* WebhooksResource.verify_signature(payload, signature, secret,           *)
(* tolerance), called when time.time() is clock.                           *)
verify_signature(payload, signature, secret, tolerance, clock) ==
  TryExcept(VerifyBody(payload, signature, secret, tolerance, clock))

----------------------------------------------------------------------------
(* JSON text, as json.loads reads it.  The documents here hold strings     *)
(* without backslash escapes, integers, the three literals, arrays and     *)
(* objects.                                                                *)

cQuote == 34
cColon == 58
cLBracket == 91
cRBracket == 93
cLBrace == 123
cRBrace == 125

(* The nesting of arrays and objects that the interpreter's recursion      *)
(* limit lets json.loads descend into (scaled down).                       *)
MaxNesting == 3

JInt(n) == [jt |-> "int", n |-> n]
JStr(t) == [jt |-> "str", s |-> t]
JLit(name) == [jt |-> "lit", name |-> name]
JArray(items) == [jt |-> "array", items |-> items]
JObject(members) == [jt |-> "object", members |-> members]

Scanned(v, end) == [st |-> "ok", v |-> v, end |-> end]
ScanError(e, at) == [st |-> e, v |-> JLit("null"), end |-> at]

IsJsonSpace(c) == c \in {9, 10, 13, 32}

(* The first position from i on that holds no whitespace. *)
RECURSIVE SkipSpace(_, _)
SkipSpace(s, i) ==
  IF i <= Len(s) /\ IsJsonSpace(s[i]) THEN SkipSpace(s, i + 1) ELSE i

HasAt(s, i, word) ==
  /\ i + Len(word) - 1 <= Len(s)
  /\ SubSeq(s, i, i + Len(word) - 1) = word

(* The position after the last of the digits that start at i. *)
RECURSIVE DigitsEnd(_, _)
DigitsEnd(s, i) ==
  IF i <= Len(s) /\ IsDigit(s[i]) THEN DigitsEnd(s, i + 1) ELSE i

(* An integer at i: an optional '-', then 0 or a digit 1-9 and digits. *)
ScanNumber(s, i) ==
  LET neg == i <= Len(s) /\ s[i] = cMinus
      d == IF neg THEN i + 1 ELSE i
      e == IF d <= Len(s) /\ s[d] = cZero THEN d + 1 ELSE DigitsEnd(s, d)
  IN IF e = d THEN ScanError("JSONDecodeError", i)
     ELSE LET n == DigitsValue(SubSeq(s, d, e - 1))
          IN Scanned(JInt(IF neg THEN -n ELSE n), e)

(* A string whose opening quote is at i. *)
ScanString(s, i) ==
  LET closing == {j \in (i + 1)..Len(s) : s[j] = cQuote}
  IN IF closing = {} THEN ScanError("JSONDecodeError", i)
     ELSE LET j == CHOOSE k \in closing : \A m \in closing : k <= m
          IN IF \E k \in (i + 1)..(j - 1) : s[k] < 32
             THEN ScanError("JSONDecodeError", i)
             ELSE Scanned(JStr(SubSeq(s, i + 1, j - 1)), j + 1)

RECURSIVE ScanOnce(_, _, _)
RECURSIVE ScanItems(_, _, _, _)
RECURSIVE ScanMembers(_, _, _, _)

(* The items of an array from i on, after those in acc, up to its ']'. *)
ScanItems(s, i, depth, acc) ==
  LET item == ScanOnce(s, i, depth)
  IN IF item.st # "ok" THEN item
     ELSE LET j == SkipSpace(s, item.end)
              items == Append(acc, item.v)
          IN IF j > Len(s) THEN ScanError("JSONDecodeError", j)
             ELSE IF s[j] = cRBracket THEN Scanned(JArray(items), j + 1)
             ELSE IF s[j] = cComma
               THEN ScanItems(s, SkipSpace(s, j + 1), depth, items)
             ELSE ScanError("JSONDecodeError", j)

(* The members of an object from the key's quote at i on, after those in   *)
(* acc, up to its '}'.                                                     *)
ScanMembers(s, i, depth, acc) ==
  IF i > Len(s) \/ s[i] # cQuote THEN ScanError("JSONDecodeError", i)
  ELSE
    LET key == ScanString(s, i)
    IN IF key.st # "ok" THEN key
       ELSE
         LET c == SkipSpace(s, key.end)
         IN IF c > Len(s) \/ s[c] # cColon THEN ScanError("JSONDecodeError", c)
            ELSE
              LET value == ScanOnce(s, SkipSpace(s, c + 1), depth)
              IN IF value.st # "ok" THEN value
                 ELSE
                   LET j == SkipSpace(s, value.end)
                       members == Append(acc, [k |-> key.v.s, v |-> value.v])
                   IN IF j > Len(s) THEN ScanError("JSONDecodeError", j)
                      ELSE IF s[j] = cRBrace
                        THEN Scanned(JObject(members), j + 1)
                      ELSE IF s[j] = cComma
                        THEN ScanMembers(s, SkipSpace(s, j + 1), depth, members)
                      ELSE ScanError("JSONDecodeError", j)

(* The JSON value at i, nested in depth arrays and objects. *)
ScanOnce(s, i, depth) ==
  IF i > Len(s) THEN ScanError("JSONDecodeError", i)
  ELSE IF s[i] = cQuote THEN ScanString(s, i)
  ELSE IF s[i] \in {cLBracket, cLBrace} /\ depth >= MaxNesting
    THEN ScanError("RecursionError", i)
  ELSE IF s[i] = cLBracket
    THEN LET j == SkipSpace(s, i + 1)
         IN IF j <= Len(s) /\ s[j] = cRBracket THEN Scanned(JArray(<<>>), j + 1)
            ELSE ScanItems(s, j, depth + 1, <<>>)
  ELSE IF s[i] = cLBrace
    THEN LET j == SkipSpace(s, i + 1)
         IN IF j <= Len(s) /\ s[j] = cRBrace THEN Scanned(JObject(<<>>), j + 1)
            ELSE ScanMembers(s, j, depth + 1, <<>>)
  ELSE IF HasAt(s, i, <<110, 117, 108, 108>>) THEN Scanned(JLit("null"), i + 4)
  ELSE IF HasAt(s, i, <<116, 114, 117, 101>>) THEN Scanned(JLit("true"), i + 4)
  ELSE IF HasAt(s, i, <<102, 97, 108, 115, 101>>)
    THEN Scanned(JLit("false"), i + 5)
  ELSE ScanNumber(s, i)

(* json.loads(s) for a str: one value, whitespace around it, nothing else. *)
JsonLoads(s) ==
  LET r == ScanOnce(s, SkipSpace(s, 1), 0)
  IN IF Len(s) > 0 /\ s[1] = 65279 THEN Raise("JSONDecodeError")
     ELSE IF r.st # "ok" THEN Raise(r.st)
     ELSE IF SkipSpace(s, r.end) <= Len(s) THEN Raise("JSONDecodeError")
     ELSE Return(r.v)

(* parse_event *)

(* raise ValueError("Invalid webhook payload format") *)
MalformedPayload ==
  [kind |-> "raise", exc |-> "ValueError", msg |-> "Invalid webhook payload format"]

(* The body of the try block: decode a bytes payload, then json.loads. *)
ParseBody(payload) ==
  IF payload.ty = "bytes"
  THEN LET d == Utf8Decode(payload.v)
       IN IF d.ok THEN JsonLoads(d.s) ELSE Raise("UnicodeDecodeError")
  ELSE IF payload.ty = "str" THEN JsonLoads(payload.v)
  ELSE Raise("TypeError")

ParseExceptClause == {"JSONDecodeError", "UnicodeDecodeError", "AttributeError"}

parse_event(payload) ==
  LET r == ParseBody(payload)
  IN IF r.kind = "raise" /\ \E c \in ParseExceptClause : IsSubclass(r.exc, c)
     THEN MalformedPayload
     ELSE r

----------------------------------------------------------------------------
(* The inputs: a sender signs a payload, the delivery reaches a receiver   *)
(* as sent or altered on the way, and the receiver verifies it.            *)

(* 'A', and the two bytes of U+00E9: each of the two alone is ill-formed.  *)
PayloadAlphabet == {65, 195, 169}

(* The bytes a payload byte may be changed to in flight: those, and 'B'. *)
TamperBytes == PayloadAlphabet \cup {66}

SeqsUpTo(S, n) == UNION {[1..k -> S] : k \in 0..n}

Payloads == {Bytes(b) : b \in SeqsUpTo(PayloadAlphabet, MaxPayloadLen)}

(* The sender's secrets "k" and "s"; a receiver may also hold "k\0". *)
SenderSecrets == {<<107>>, <<115>>}
Secrets == SenderSecrets \cup {<<107, 0>>}

InitialClocks == {0, 9}

Tolerances == {0, MaxTolerance}

(* No timestamp, zero, the clock, and the timestamps at the edges of the   *)
(* largest tolerance around the clock.                                     *)
TimestampArgs(clock) ==
  {NoneT, IntV(0)}
    \cup {IntV(clock + d) : d \in {-MaxTolerance - 1, -MaxTolerance, 0,
                                    MaxTolerance, MaxTolerance + 1}}

(* The byte strings that differ from b in exactly one byte. *)
OneByteChanges(b) ==
  {[b EXCEPT ![i] = x] : i \in 1..Len(b), x \in TamperBytes} \ {b}

VARIABLES
  now,         \* int(time.time())
  ticks,       \* seconds elapsed since the start
  tolerance,   \* the tolerance the receiver passes to verify_signature
  pc,          \* "idle", "signed" or "verified"
  sPayload,    \* the arguments of the create_signature call
  sSecret,
  sTimestamp,
  sNow,        \* the clock when create_signature was called
  sResult,     \* what create_signature did
  vPayload,    \* the arguments of the verify_signature call
  vSignature,
  vSecret,
  vNow,        \* the clock when verify_signature read it
  vResult      \* what verify_signature did

VARIABLES
  pPayload,    \* the argument of the parse_event call
  pResult      \* what parse_event did

VARIABLES
  cNow,        \* int(time.time()) while the threads run
  cTicks,      \* seconds elapsed since the threads started
  cThreads,    \* of each thread: its call, where it is in it, its result
  cFrames      \* the local variables of each call

VARIABLES
  hNow,        \* int(time.time()) at the webhook server
  hTicks,      \* seconds elapsed since the request arrived
  hAt,         \* where handle_webhook is in the request
  hHeader,     \* request.headers.get('X-JewelMusic-Signature')
  hBody,       \* request.get_data()
  hVerify,     \* what verify_signature did for the request
  hVerifyNow,  \* the clock when it was called
  hEvent,      \* what parse_event did for the request
  hCalls,      \* the calls handle_webhook has made, in order
  hResponse    \* the status of the response, 0 before there is one

VARIABLES
  rResource,   \* the class of the resource a method is called on
  rMethod,     \* the method called, and its argument
  rArg,
  rStack,      \* the calls in progress, the innermost last
  rReturn,     \* the value on its way back to the caller
  rRequests,   \* the requests handed to the HTTP client
  rResult      \* what the call did

VARIABLES
  eData,       \* the arguments of the create_error_from_response call
  eStatus,
  eResult      \* what it did

VARIABLES
  qMaxRetries, \* self.max_retries
  qAt,         \* where _make_request is
  qAttempt,    \* attempt, the loop variable
  qAttempts,   \* the HTTP attempts made
  qWaits,      \* the asyncio.sleep calls: after which attempt (-1: before
               \* the first), how long
  qLast,       \* last_exception
  qResult      \* what _make_request did

VARIABLES
  dMethod,    \* the method called: validate_required or create
  dData,      \* the data dictionary
  dRequired,  \* required_fields
  dAt,        \* where the call is
  dRequests,  \* the requests handed to the HTTP client
  dResult     \* what the call did

VARIABLES
  lMaxPages,  \* max_pages: None or an integer
  lAt,        \* where list_all is
  lPage,      \* page
  lFetched,   \* pages_fetched
  lItems,     \* all_items
  lRequests,  \* the page parameter of each request sent
  lResult     \* what list_all did

VARIABLES
  oNow,       \* asyncio.get_event_loop().time()
  oStart,     \* start_time
  oTimeout,   \* timeout
  oInterval,  \* poll_interval
  oAt,        \* where poll_for_completion is
  oPolls,     \* the status data polled, and when each came
  oResult     \* what poll_for_completion did

VARIABLES
  yNow,        \* int(time.time())
  yTicks,      \* seconds elapsed since the start
  yTolerance,  \* the tolerance of the receiver
  ySent,       \* the delivery captured: payload, secret, timestamp, digest
  yCalls       \* the verify_signature calls made with it

signVars == <<sPayload, sSecret, sTimestamp, sNow, sResult>>
verifyVars == <<vPayload, vSignature, vSecret, vNow, vResult>>
signatureVars == <<now, ticks, tolerance, pc, signVars, verifyVars>>
parseVars == <<pPayload, pResult>>
threadVars == <<cNow, cTicks, cThreads, cFrames>>
handlerVars == <<hNow, hTicks, hAt, hHeader, hBody, hVerify, hVerifyNow,
                 hEvent, hCalls, hResponse>>

resourceVars == <<rResource, rMethod, rArg, rStack, rReturn, rRequests,
                  rResult>>
errorVars == <<eData, eStatus, eResult>>
requestVars == <<qMaxRetries, qAt, qAttempt, qAttempts, qWaits, qLast, qResult>>

validateVars == <<dMethod, dData, dRequired, dAt, dRequests, dResult>>

pageVars == <<lMaxPages, lAt, lPage, lFetched, lItems, lRequests, lResult>>

pollVars == <<oNow, oStart, oTimeout, oInterval, oAt, oPolls, oResult>>

replayVars == <<yNow, yTicks, yTolerance, ySent, yCalls>>

vars == <<signatureVars, parseVars, threadVars, handlerVars,
          resourceVars, errorVars, requestVars, validateVars,
          pageVars, pollVars, replayVars>>

(* No signature has been created or verified. *)
NoSignature ==
  /\ now = 0
  /\ ticks = 0
  /\ tolerance = 0
  /\ pc = "idle"
  /\ sPayload = NoneV
  /\ sSecret = <<>>
  /\ sTimestamp = NoneT
  /\ sNow = 0
  /\ sResult = NotCalled
  /\ vPayload = NoneV
  /\ vSignature = NoneV
  /\ vSecret = <<>>
  /\ vNow = 0
  /\ vResult = NotCalled

(* No payload has been parsed. *)
NoParse ==
  /\ pPayload = NoneV
  /\ pResult = NotCalled

(* No thread has been started. *)
NoThreads ==
  /\ cNow = 0
  /\ cTicks = 0
  /\ cThreads = <<>>
  /\ cFrames = <<>>

(* No request has arrived at the webhook server. *)
NoRequest ==
  /\ hNow = 0
  /\ hTicks = 0
  /\ hAt = "idle"
  /\ hHeader = NoneV
  /\ hBody = NoneV
  /\ hVerify = NotCalled
  /\ hVerifyNow = 0
  /\ hEvent = NotCalled
  /\ hCalls = <<>>
  /\ hResponse = 0

(* No method of a resource has been called. *)
NoResourceCall ==
  /\ rResource = ""
  /\ rMethod = ""
  /\ rArg = NoneV
  /\ rStack = <<>>
  /\ rReturn = NotCalled
  /\ rRequests = <<>>
  /\ rResult = NotCalled

(* No error has been made from a response. *)
NoError ==
  /\ eData = NoneV
  /\ eStatus = 0
  /\ eResult = NotCalled

(* The HTTP client has been asked for nothing. *)
NoHttpRequest ==
  /\ qMaxRetries = 0
  /\ qAt = "idle"
  /\ qAttempt = 0
  /\ qAttempts = <<>>
  /\ qWaits = <<>>
  /\ qLast = "None"
  /\ qResult = NotCalled

(* Nothing has been validated. *)
NoValidation ==
  /\ dMethod = ""
  /\ dData = NoneV
  /\ dRequired = <<>>
  /\ dAt = "idle"
  /\ dRequests = <<>>
  /\ dResult = NotCalled

(* list_all has not been called. *)
NoListing ==
  /\ lMaxPages = NoneV
  /\ lAt = "idle"
  /\ lPage = 0
  /\ lFetched = 0
  /\ lItems = <<>>
  /\ lRequests = <<>>
  /\ lResult = NotCalled

(* poll_for_completion has not been called. *)
NoPolling ==
  /\ oNow = 0
  /\ oStart = 0
  /\ oTimeout = 0
  /\ oInterval = 0
  /\ oAt = "idle"
  /\ oPolls = <<>>
  /\ oResult = NotCalled

(* No delivery has been captured. *)
NoDelivery ==
  /\ yNow = 0
  /\ yTicks = 0
  /\ yTolerance = 0
  /\ ySent = NoneV
  /\ yCalls = <<>>

(* Each part of the program runs with the others at rest, and leaves      *)
(* their variables alone.                                                  *)
OnlySignature ==
  NoParse /\ NoThreads /\ NoRequest /\ NoResourceCall /\ NoError /\
    NoHttpRequest /\ NoValidation /\ NoListing /\ NoPolling /\ NoDelivery
OnlyParse ==
  NoSignature /\ NoThreads /\ NoRequest /\ NoResourceCall /\ NoError /\
    NoHttpRequest /\ NoValidation /\ NoListing /\ NoPolling /\ NoDelivery
OnlyThreads ==
  NoSignature /\ NoParse /\ NoRequest /\ NoResourceCall /\ NoError /\
    NoHttpRequest /\ NoValidation /\ NoListing /\ NoPolling /\ NoDelivery
OnlyHandler ==
  NoSignature /\ NoParse /\ NoThreads /\ NoResourceCall /\ NoError /\
    NoHttpRequest /\ NoValidation /\ NoListing /\ NoPolling /\ NoDelivery
OnlyResource ==
  NoSignature /\ NoParse /\ NoThreads /\ NoRequest /\ NoError /\
    NoHttpRequest /\ NoValidation /\ NoListing /\ NoPolling /\ NoDelivery
OnlyError ==
  NoSignature /\ NoParse /\ NoThreads /\ NoRequest /\ NoResourceCall /\
    NoHttpRequest /\ NoValidation /\ NoListing /\ NoPolling /\ NoDelivery
OnlyHttpRequest ==
  NoSignature /\ NoParse /\ NoThreads /\ NoRequest /\ NoResourceCall /\
    NoError /\ NoValidation /\ NoListing /\ NoPolling /\ NoDelivery
OnlyValidation ==
  NoSignature /\ NoParse /\ NoThreads /\ NoRequest /\ NoResourceCall /\
    NoError /\ NoHttpRequest /\ NoListing /\ NoPolling /\ NoDelivery
OnlyListing ==
  NoSignature /\ NoParse /\ NoThreads /\ NoRequest /\ NoResourceCall /\
    NoError /\ NoHttpRequest /\ NoValidation /\ NoPolling /\ NoDelivery
OnlyPolling ==
  NoSignature /\ NoParse /\ NoThreads /\ NoRequest /\ NoResourceCall /\
    NoError /\ NoHttpRequest /\ NoValidation /\ NoListing /\ NoDelivery
OnlyReplay ==
  NoSignature /\ NoParse /\ NoThreads /\ NoRequest /\ NoResourceCall /\
    NoError /\ NoHttpRequest /\ NoValidation /\ NoListing /\ NoPolling

notSignatureVars ==
  <<parseVars, threadVars, handlerVars, resourceVars, errorVars,
    requestVars, validateVars, pageVars, pollVars, replayVars>>
notParseVars ==
  <<signatureVars, threadVars, handlerVars, resourceVars, errorVars,
    requestVars, validateVars, pageVars, pollVars, replayVars>>
notThreadVars ==
  <<signatureVars, parseVars, handlerVars, resourceVars, errorVars,
    requestVars, validateVars, pageVars, pollVars, replayVars>>
notHandlerVars ==
  <<signatureVars, parseVars, threadVars, resourceVars, errorVars,
    requestVars, validateVars, pageVars, pollVars, replayVars>>
notResourceVars ==
  <<signatureVars, parseVars, threadVars, handlerVars, errorVars,
    requestVars, validateVars, pageVars, pollVars, replayVars>>
notErrorVars ==
  <<signatureVars, parseVars, threadVars, handlerVars, resourceVars,
    requestVars, validateVars, pageVars, pollVars, replayVars>>
notRequestVars ==
  <<signatureVars, parseVars, threadVars, handlerVars, resourceVars,
    errorVars, validateVars, pageVars, pollVars, replayVars>>
notValidateVars ==
  <<signatureVars, parseVars, threadVars, handlerVars, resourceVars,
    errorVars, requestVars, pageVars, pollVars, replayVars>>
notPageVars ==
  <<signatureVars, parseVars, threadVars, handlerVars, resourceVars,
    errorVars, requestVars, validateVars, pollVars, replayVars>>
notPollVars ==
  <<signatureVars, parseVars, threadVars, handlerVars, resourceVars,
    errorVars, requestVars, validateVars, pageVars, replayVars>>
notReplayVars ==
  <<signatureVars, parseVars, threadVars, handlerVars, resourceVars,
    errorVars, requestVars, validateVars, pageVars, pollVars>>

(* The tokens of the header in flight; a sender whose create_signature     *)
(* raised has sent nothing, and the tokens are a forger's.                 *)
JunkHash == V1Prefix \o <<cZero, cZero>>

SentTokens ==
  IF sResult.kind = "return" THEN Split(sResult.val, cComma)
  ELSE <<TPrefix \o IntToStr(now), JunkHash>>

(* The signature headers a receiver may be handed. *)
Signatures ==
  LET tTok == SentTokens[1]
      vTok == SentTokens[2]
      staleT == TPrefix \o IntToStr(now - MaxTolerance - 1)
      extra == <<cEq, cNine>>
      tokenLists ==
        { <<tTok, vTok>>, <<vTok, tTok>>,
          <<tTok, vTok, JunkHash>>, <<tTok, JunkHash, vTok>>,
          <<tTok, staleT, vTok>>, <<staleT, tTok, vTok>>,
          <<tTok \o extra, vTok>>, <<tTok, vTok \o extra>>,
          <<tTok>>, <<vTok>>, <<>>,
          <<TPrefix \o <<cX>>, vTok>>, <<TPrefix, vTok>>,
          <<<<cSpace>> \o tTok, vTok>>,
          <<tTok, V1Prefix \o <<233>>>> }
  IN {Str(Join(l, cComma)) : l \in tokenLists}
       \cup {NoneV, Bytes(Join(<<tTok, vTok>>, cComma))}

(* What the receiver is handed: the delivery as sent, or with one of the   *)
(* payload, the header and the secret being another.                       *)
Deliveries ==
  LET sent == Str(Join(SentTokens, cComma))
  IN {<<sPayload, sent, s>> : s \in Secrets}
       \cup {<<Bytes(b), sent, sSecret>> : b \in OneByteChanges(sPayload.v)}
       \cup {<<NoneV, sent, sSecret>>}
       \cup {<<sPayload, sig, sSecret>> : sig \in Signatures}

Init ==
  /\ now \in InitialClocks
  /\ ticks = 0
  /\ tolerance \in Tolerances
  /\ pc = "idle"
  /\ sPayload = NoneV
  /\ sSecret = <<>>
  /\ sTimestamp = NoneT
  /\ sNow = 0
  /\ sResult = NotCalled
  /\ vPayload = NoneV
  /\ vSignature = NoneV
  /\ vSecret = <<>>
  /\ vNow = 0
  /\ vResult = NotCalled
  /\ OnlySignature

(* The clock advances by a second (what it does after the last call       *)
(* decides nothing).                                                       *)
Tick ==
  /\ ticks < MaxTicks
  /\ pc # "verified"
  /\ now' = now + 1
  /\ ticks' = ticks + 1
  /\ UNCHANGED <<tolerance, pc, signVars, verifyVars, notSignatureVars>>

(* The sender calls create_signature(payload, secret, timestamp). *)
Sign(payload, secret, timestamp) ==
  /\ pc = "idle"
  /\ sPayload' = payload
  /\ sSecret' = secret
  /\ sTimestamp' = timestamp
  /\ sNow' = now
  /\ sResult' = create_signature(payload, secret, timestamp, now)
  /\ pc' = "signed"
  /\ UNCHANGED <<now, ticks, tolerance, verifyVars, notSignatureVars>>

(* The receiver calls verify_signature(payload, signature, secret,         *)
(* tolerance).                                                             *)
Verify(payload, signature, secret) ==
  /\ pc = "signed"
  /\ vPayload' = payload
  /\ vSignature' = signature
  /\ vSecret' = secret
  /\ vNow' = now
  /\ vResult' = verify_signature(payload, signature, secret, tolerance, now)
  /\ pc' = "verified"
  /\ UNCHANGED <<now, ticks, tolerance, signVars, notSignatureVars>>

Next ==
  \/ Tick
  \/ \E p \in Payloads, s \in SenderSecrets, t \in TimestampArgs(now) : Sign(p, s, t)
  \/ \E d \in Deliveries : Verify(d[1], d[2], d[3])

Spec == Init /\ [][Next]_vars

----------------------------------------------------------------------------
(* parse_event, called on the payloads a receiver can be handed. *)

MaxDocLen == 3

(* '[', ']', '1', '"' and the first byte of a two-byte UTF-8 sequence. *)
DocAlphabet == {cLBracket, cRBracket, cOne, cQuote, 195}

Quoted(t) == <<cQuote>> \o t \o <<cQuote>>
Member(k, v) == Quoted(k) \o <<cColon>> \o v
ObjectDoc(members) == <<cLBrace>> \o Join(members, cComma) \o <<cRBrace>>

KeyId == <<105, 100>>
KeyType == <<116, 121, 112, 101>>
KeyTimestamp == <<116, 105, 109, 101, 115, 116, 97, 109, 112>>
KeyData == <<100, 97, 116, 97>>

(* The names of the events the sender documents, and one it does not. *)
TrackUploaded ==
  <<116, 114, 97, 99, 107, 46, 117, 112, 108, 111, 97, 100, 101, 100>>
OtherType == <<120>>

(* A document of the sender: {"id":"A","type":...,"timestamp":"1","data":{}} *)
EventDoc(type) ==
  ObjectDoc(<<Member(KeyId, Quoted(<<65>>)), Member(KeyType, Quoted(type)),
              Member(KeyTimestamp, Quoted(<<cOne>>)),
              Member(KeyData, ObjectDoc(<<>>))>>)

(* The same document without its "type" member. *)
NoTypeDoc ==
  ObjectDoc(<<Member(KeyId, Quoted(<<65>>)),
              Member(KeyTimestamp, Quoted(<<cOne>>)),
              Member(KeyData, ObjectDoc(<<>>))>>)

(* n arrays inside one another around a 1. *)
RECURSIVE Nested(_)
Nested(n) ==
  IF n = 0 THEN <<cOne>> ELSE <<cLBracket>> \o Nested(n - 1) \o <<cRBracket>>

SampleDocs ==
  {EventDoc(TrackUploaded), EventDoc(OtherType), NoTypeDoc,
   Nested(MaxNesting), Nested(MaxNesting + 1)}

(* The payloads: bytes of every short text over the alphabet, the sample  *)
(* documents as bytes, and the same as str where they are UTF-8.          *)
ParseBytes == {Bytes(b) : b \in SeqsUpTo(DocAlphabet, MaxDocLen) \cup SampleDocs}
ParseStrs == {Str(Utf8Decode(p.v).s) : p \in {q \in ParseBytes : Utf8Decode(q.v).ok}}

InitParse ==
  /\ OnlyParse
  /\ NoParse

(* The receiver calls parse_event(payload). *)
ParseEvent(payload) ==
  /\ pResult = NotCalled
  /\ pPayload' = payload
  /\ pResult' = parse_event(payload)
  /\ UNCHANGED notParseVars

NextParse ==
  \/ \E payload \in ParseBytes : ParseEvent(payload)
  \/ \E payload \in ParseStrs : ParseEvent(payload)

SpecParse == InitParse /\ [][NextParse]_vars

----------------------------------------------------------------------------
(* Properties of create_signature and verify_signature. *)

Verified == pc = "verified"

(* create_signature returned a header and the receiver was handed it. *)
HeaderAsSent == sResult.kind = "return" /\ vSignature = Str(sResult.val)

(* The timestamp of the header create_signature returned. *)
HeaderTimestamp == SignTimestamp(sTimestamp, sNow)

WellFormedUtf8(payload) == payload.ty = "bytes" /\ Utf8Decode(payload.v).ok

(* C1, as amended: for every payload P that is well-formed UTF-8, every    *)
(* secret S and every integer timestamp T, create_signature(P, S, T)       *)
(* returns a header, and verify_signature(P, that header, S, tolerance)    *)
(* returns true whenever the clock read at verification satisfies          *)
(* |now - T| <= tolerance, the boundary |now - T| = tolerance included.    *)
C1_RoundTrip ==
  /\ (pc # "idle" /\ WellFormedUtf8(sPayload)) => sResult.kind = "return"
  /\ ( /\ Verified
       /\ WellFormedUtf8(sPayload)
       /\ sTimestamp.ty = "int"
       /\ HeaderAsSent
       /\ vPayload = sPayload
       /\ vSecret = sSecret
       /\ Abs(vNow - sTimestamp.n) <= tolerance )
     => vResult = Return(TRUE)

(* A two-byte payload (U+00E9) signed with an explicit timestamp and       *)
(* verified exactly tolerance seconds away from it.                        *)
C1_Witness ==
  /\ Verified
  /\ sPayload = Bytes(<<195, 169>>)
  /\ sTimestamp.ty = "int"
  /\ HeaderAsSent
  /\ vPayload = sPayload
  /\ vSecret = sSecret
  /\ tolerance > 0
  /\ Abs(vNow - sTimestamp.n) = tolerance
  /\ vResult = Return(TRUE)

(* C1, as stated: the round trip succeeds for every byte payload, the      *)
(* ill-formed ones included: create_signature yields a header for it and   *)
(* verify_signature returns true for that header within the tolerance.     *)
C1_RoundTripEveryPayload ==
  /\ (pc # "idle" /\ sPayload.ty = "bytes" /\ sTimestamp.ty = "int")
     => sResult.kind = "return"
  /\ ( /\ Verified
       /\ sTimestamp.ty = "int"
       /\ HeaderAsSent
       /\ vPayload = sPayload
       /\ vSecret = sSecret
       /\ Abs(vNow - sTimestamp.n) <= tolerance )
     => vResult = Return(TRUE)

(* C2: tamper rejection.  A header signed for P and handed over with the   *)
(* sender's secret and a payload that differs from P in exactly one byte   *)
(* is rejected while its timestamp is within the tolerance, also when the  *)
(* changed byte leaves the payload ill-formed UTF-8.                       *)
C2_TamperRejected ==
  ( /\ Verified
    /\ HeaderAsSent
    /\ vSecret = sSecret
    /\ vPayload.ty = "bytes"
    /\ vPayload.v \in OneByteChanges(sPayload.v)
    /\ Abs(vNow - HeaderTimestamp) <= tolerance )
  => vResult = Return(FALSE)

(* A fresh header and a tampered payload that is still well-formed. *)
C2_Witness ==
  /\ Verified
  /\ HeaderAsSent
  /\ vSecret = sSecret
  /\ vPayload.ty = "bytes"
  /\ vPayload.v \in OneByteChanges(sPayload.v)
  /\ WellFormedUtf8(vPayload)
  /\ Abs(vNow - HeaderTimestamp) <= tolerance
  /\ vResult = Return(FALSE)

(* The keys of two secrets as HMAC uses them differ. *)
KeysDiffer(s1, s2) ==
  StripZeros(Utf8Encode(s1).b) # StripZeros(Utf8Encode(s2).b)

(* C3, as amended: wrong-secret rejection.  A fresh header signed with S1  *)
(* is rejected under every secret S2 whose UTF-8 bytes differ from those   *)
(* of S1 otherwise than by trailing zero bytes.                            *)
C3_WrongSecretRejected ==
  ( /\ Verified
    /\ HeaderAsSent
    /\ vPayload = sPayload
    /\ KeysDiffer(vSecret, sSecret)
    /\ Abs(vNow - HeaderTimestamp) <= tolerance )
  => vResult = Return(FALSE)

C3_Witness ==
  /\ Verified
  /\ HeaderAsSent
  /\ vPayload = sPayload
  /\ KeysDiffer(vSecret, sSecret)
  /\ Abs(vNow - HeaderTimestamp) <= tolerance
  /\ vResult = Return(FALSE)

(* C3, as stated: a fresh header signed with S1 is rejected under every    *)
(* secret S2 # S1.                                                         *)
C3_AnyOtherSecretRejected ==
  ( /\ Verified
    /\ HeaderAsSent
    /\ vPayload = sPayload
    /\ vSecret # sSecret
    /\ Abs(vNow - HeaderTimestamp) <= tolerance )
  => vResult = Return(FALSE)

(* C4: staleness gate.  A header with the correct digest for the payload   *)
(* and the secret is rejected whenever its timestamp is more than the      *)
(* tolerance away from the clock, in the past or in the future.            *)
C4_StaleRejected ==
  ( /\ Verified
    /\ HeaderAsSent
    /\ vPayload = sPayload
    /\ vSecret = sSecret
    /\ Abs(vNow - HeaderTimestamp) > tolerance )
  => vResult = Return(FALSE)

(* A correctly signed header dated tolerance + 1 seconds in the future. *)
C4_Witness ==
  /\ Verified
  /\ HeaderAsSent
  /\ vPayload = sPayload
  /\ vSecret = sSecret
  /\ HeaderTimestamp = vNow + tolerance + 1
  /\ vResult = Return(FALSE)

(* C5: verify_signature never raises: whatever it is handed, it returns    *)
(* true or false.                                                          *)
C5_NeverRaises ==
  Verified => vResult \in {Return(TRUE), Return(FALSE)}

(* A payload that is ill-formed UTF-8 under a fresh header: the decoding   *)
(* raises inside verify_signature, which returns false.                    *)
C5_Witness ==
  /\ Verified
  /\ VerifyBody(vPayload, vSignature, vSecret, tolerance, vNow)
       = Raise("UnicodeDecodeError")
  /\ vResult = Return(FALSE)

(* The tokens of the header the receiver was handed. *)
Elements == Split(vSignature.v, cComma)

TokenCount(prefix) ==
  Cardinality({i \in 1..Len(Elements) : StartsWith(Elements[i], prefix)})

(* The whole text of a token after its first '='. *)
WholeValue(el) == SubSeq(el, IndexOf(el, cEq) + 1, Len(el))

C7_DuplicateTokenRejected ==
  ( /\ Verified
    /\ vSignature.ty = "str"
    /\ (TokenCount(TPrefix) >= 2 \/ TokenCount(V1Prefix) >= 2) )
  => vResult = Return(FALSE)

(* C8, as stated: the value of a token is the whole text after its first   *)
(* '=': a header whose t value is not in its entirety an integer, or whose *)
(* v1 value is longer than the digest it begins with, is rejected.         *)
C8_WholeValueRead ==
  ( /\ Verified
    /\ vSignature.ty = "str"
    /\ TokenCount(TPrefix) > 0
    /\ TokenCount(V1Prefix) > 0
    /\ LET t == FirstMatch(Elements, TPrefix).el
           h == FirstMatch(Elements, V1Prefix).el
       IN \/ ~ParseInt(WholeValue(t)).ok
          \/ WholeValue(h) # TokenValue(h) )
  => vResult = Return(FALSE)

(* The header is one t token and one v1 token, in either order. *)
OneOfEach ==
  /\ vSignature.ty = "str"
  /\ Len(Elements) = 2
  /\ \/ StartsWith(Elements[1], TPrefix) /\ StartsWith(Elements[2], V1Prefix)
     \/ StartsWith(Elements[1], V1Prefix) /\ StartsWith(Elements[2], TPrefix)

Swapped == Str(Join(<<Elements[2], Elements[1]>>, cComma))

(* C9: token order is not significant.  What verify_signature returns for  *)
(* a header of one t token and one v1 token, it returns for the header     *)
(* with the two tokens swapped, the payload, the secret, the tolerance and *)
(* the clock being the same; and create_signature emits t first, v1        *)
(* second.                                                                 *)
C9_OrderNotSignificant ==
  /\ (Verified /\ OneOfEach)
     => vResult = verify_signature(vPayload, Swapped, vSecret, tolerance, vNow)
  /\ sResult.kind = "return"
     => LET sent == Split(sResult.val, cComma)
        IN /\ Len(sent) = 2
           /\ StartsWith(sent[1], TPrefix)
           /\ StartsWith(sent[2], V1Prefix)

(* The header as sent with its tokens swapped, v1 first, is accepted. *)
C9_Witness ==
  /\ Verified
  /\ OneOfEach
  /\ StartsWith(Elements[1], V1Prefix)
  /\ sResult.kind = "return"
  /\ Swapped = Str(sResult.val)
  /\ vResult = Return(TRUE)

(* C10, as stated: with an integer timestamp T supplied, the t token of    *)
(* the header is the decimal T and the header does not depend on the       *)
(* clock.                                                                  *)
C10_ExplicitTimestampUsed ==
  (pc # "idle" /\ sTimestamp.ty = "int" /\ sResult.kind = "return")
  => /\ Split(sResult.val, cComma)[1] = TPrefix \o IntToStr(sTimestamp.n)
     /\ \A c \in InitialClocks :
          create_signature(sPayload, sSecret, sTimestamp, c) = sResult

----------------------------------------------------------------------------
(* Properties of parse_event. *)

Parsed == pResult # NotCalled

(* The members of an object by key; of two with one key the later counts. *)
HasKey(v, k) == \E i \in 1..Len(v.members) : v.members[i].k = k

(* A WebhookEvent: a mapping with the fields id, type, timestamp and data. *)
IsWebhookEvent(v) ==
  /\ v.jt = "object"
  /\ \A k \in {KeyId, KeyType, KeyTimestamp, KeyData} : HasKey(v, k)

(* C11: parse_event either returns or raises the one malformed-payload     *)
(* error; no other exception leaves it, whatever the payload.              *)
C11_OnlyMalformedPayload ==
  Parsed => pResult.kind = "return" \/ pResult = MalformedPayload

(* C12: every value parse_event returns is a WebhookEvent, a mapping with  *)
(* the fields id, type, timestamp and data.                                *)
C12_ReturnsWebhookEvent ==
  (Parsed /\ pResult.kind = "return") => IsWebhookEvent(pResult.val)

----------------------------------------------------------------------------
(* Silent failure of verify_signature. *)

(* The header of a sender who signs payload with secret at timestamp. *)
HeaderFor(payload, secret, timestamp) ==
  Str(FormatHeader(timestamp,
        HmacHex(secret, SignedPayload(timestamp, payload).val).val))

(* Calls of verify_signature at the clock and tolerance of the receiver's  *)
(* call, each failing for a reason of its own: what the try block does and *)
(* what the caller observes.                                               *)
FailingRun(reason, payload, signature, secret) ==
  LET body == VerifyBody(payload, signature, secret, tolerance, vNow)
  IN [reason |-> reason, body |-> body, observed |-> TryExcept(body)]

FailingRuns ==
  LET P == Bytes(<<65>>)
      K == <<107>>
  IN {FailingRun("wrong secret", P, HeaderFor(P, <<115>>, vNow), K),
      FailingRun("stale timestamp", P, HeaderFor(P, K, vNow - tolerance - 1), K),
      FailingRun("no tokens", P, Str(<<cX>>), K),
      FailingRun("timestamp not a number", P,
                 Str(TPrefix \o <<cX, cComma>> \o JunkHash), K),
      FailingRun("no header", P, NoneV, K),
      FailingRun("payload not UTF-8", Bytes(<<195>>),
                 Str(TPrefix \o IntToStr(vNow) \o <<cComma>> \o JunkHash), K)}

(* C13: silent failure.  A call of verify_signature that fails shows its   *)
(* caller the value false and nothing else: what it shows is what every    *)
(* other failing call shows, whether that one fails on the secret, the     *)
(* timestamp, the header or the payload's encoding.                        *)
C13_SilentFailure ==
  (Verified /\ vResult # Return(TRUE))
  => \A run \in FailingRuns :
       /\ run.body # Return(TRUE)
       /\ run.observed = vResult

(* The receiver's call failed on a wrong secret, and other calls fail in   *)
(* the try block in all the ways it can end: returning false, and raising  *)
(* each of the exceptions it can raise.                                    *)
C13_Witness ==
  /\ Verified
  /\ HeaderAsSent
  /\ vPayload = sPayload
  /\ KeysDiffer(vSecret, sSecret)
  /\ ~OutOfTolerance(vNow, HeaderTimestamp, tolerance)
  /\ vResult = Return(FALSE)
  /\ {run.body : run \in FailingRuns}
       = {Return(FALSE), Raise("ValueError"), Raise("AttributeError"),
          Raise("UnicodeDecodeError")}

----------------------------------------------------------------------------
(* The comparison of the digests in verify_signature. *)

(* The two digests verify_signature compares, where a call gets as far as  *)
(* comparing them.                                                         *)
ComparedDigests(payload, signature, secret, tol, clock) ==
  LET never == [reached |-> FALSE, received |-> <<>>, expected |-> <<>>]
  IN IF signature.ty # "str" THEN never
     ELSE
       LET elements == Split(signature.v, cComma)
           timestamp_element == FirstMatch(elements, TPrefix)
           hash_element == FirstMatch(elements, V1Prefix)
       IN IF ~timestamp_element.found \/ ~hash_element.found THEN never
          ELSE
            LET timestamp == ParseInt(TokenValue(timestamp_element.el))
            IN IF ~timestamp.ok THEN never
               ELSE IF OutOfTolerance(clock, timestamp.n, tol) THEN never
               ELSE
                 LET sp == SignedPayload(timestamp.n, payload)
                 IN IF sp.kind = "raise" THEN never
                    ELSE LET expected_hash == HmacHex(secret, sp.val)
                         IN IF expected_hash.kind = "raise" THEN never
                            ELSE [reached |-> TRUE,
                                  received |-> TokenValue(hash_element.el),
                                  expected |-> expected_hash.val]

(* The positions a == b reads: up to the first at which the two differ. *)
ExaminedPositions_ShortCircuit(a, b) ==
  LET n == IF Len(a) < Len(b) THEN Len(a) ELSE Len(b)
      differing == {i \in 1..n : a[i] # b[i]}
  IN IF differing = {} THEN 1..n
     ELSE 1..(CHOOSE i \in differing : \A j \in differing : i <= j)

(* The positions hmac.compare_digest(a, b) reads to compare a with b:      *)
(* every one of b's, whatever a holds.                                     *)
ExaminedPositions(a, b) == 1..Len(b)

(* The received digest with one character replaced. *)
OneCharChanges(digest) ==
  {[digest EXCEPT ![i] = x] : i \in 1..Len(digest), x \in {cZero, cLowerA}}
    \ {digest}

----------------------------------------------------------------------------
(* The three static methods called from several threads at once.  A call   *)
(* runs statement by statement; what one statement leaves for the next is  *)
(* in the local variables of the call.                                     *)

MaxThreads == 2

Threads == 1..MaxThreads

(* The frame that holds the local variables of the call thread t makes:    *)
(* one frame shared by all the calls, then each call's own.                *)
FrameOf_Shared(t) == 1
FrameOf(t) == t

(* ts / timestamp, received_hash, signed_payload / payload_str, hash_value *)
(* / expected_hash.                                                        *)
EmptyFrame == [ts |-> 0, received_hash |-> <<>>, text |-> <<>>, hash |-> <<>>]

CreateCall(payload, secret, timestamp) ==
  [op |-> "create_signature", payload |-> payload, signature |-> NoneV,
   secret |-> secret, timestamp |-> timestamp, tolerance |-> 0]
VerifyCall(payload, signature, secret, tol) ==
  [op |-> "verify_signature", payload |-> payload, signature |-> signature,
   secret |-> secret, timestamp |-> NoneT, tolerance |-> tol]
ParseCall(payload) ==
  [op |-> "parse_event", payload |-> payload, signature |-> NoneV,
   secret |-> <<>>, timestamp |-> NoneT, tolerance |-> 0]

(* What an except clause makes of the outcome of its try block. *)
Caught(r, clause, handled) ==
  IF r.kind = "raise" /\ \E c \in clause : IsSubclass(r.exc, c)
  THEN handled
  ELSE r

(* The statement at at goes on to the next with the frame it leaves, or    *)
(* ends the call with a result.                                            *)
GoOn(at, frame) == [at |-> at, frame |-> frame, result |-> NotCalled]
End(frame, result) == [at |-> "done", frame |-> frame, result |-> result]

(* The timestamp that goes into signed_payload: ts, the local variable, or  *)
(* a second evaluation of timestamp or int(time.time()).                   *)
SignedTimestamp_ReadAgain(call, frame, clock) ==
  SignTimestamp(call.timestamp, clock)

(* f"{ts}.": the timestamp that goes into signed_payload is ts. *)
SignedTimestamp(call, frame, clock) == frame.ts

(* One statement of create_signature. *)
CreateStep(call, at, frame, clock) ==
  CASE at = "ts" ->
         GoOn("signed_payload",
              [frame EXCEPT !.ts = SignTimestamp(call.timestamp, clock)])
    [] at = "signed_payload" ->
         LET sp == SignedPayload(SignedTimestamp(call, frame, clock),
                                 call.payload)
         IN IF sp.kind = "raise" THEN End(frame, sp)
            ELSE GoOn("hash", [frame EXCEPT !.text = sp.val])
    [] at = "hash" ->
         LET h == HmacHex(call.secret, frame.text)
         IN IF h.kind = "raise" THEN End(frame, h)
            ELSE GoOn("return", [frame EXCEPT !.hash = h.val])
    [] at = "return" ->
         End(frame, Return(FormatHeader(frame.ts, frame.hash)))

(* One statement of verify_signature, inside its try block. *)
VerifyTry(call, at, frame, clock) ==
  CASE at = "elements" ->
         IF call.signature.ty = "none" THEN End(frame, Raise("AttributeError"))
         ELSE IF call.signature.ty # "str" THEN End(frame, Raise("TypeError"))
         ELSE
           LET elements == Split(call.signature.v, cComma)
               timestamp_element == FirstMatch(elements, TPrefix)
               hash_element == FirstMatch(elements, V1Prefix)
           IN IF ~timestamp_element.found \/ ~hash_element.found
              THEN End(frame, Return(FALSE))
              ELSE
                LET timestamp == ParseInt(TokenValue(timestamp_element.el))
                IN IF ~timestamp.ok THEN End(frame, Raise("ValueError"))
                   ELSE GoOn("now",
                          [frame EXCEPT
                             !.ts = timestamp.n,
                             !.received_hash = TokenValue(hash_element.el)])
    [] at = "now" ->
         IF OutOfTolerance(clock, frame.ts, call.tolerance)
         THEN End(frame, Return(FALSE))
         ELSE GoOn("signed_payload", frame)
    [] at = "signed_payload" ->
         LET sp == SignedPayload(frame.ts, call.payload)
         IN IF sp.kind = "raise" THEN End(frame, sp)
            ELSE GoOn("hash", [frame EXCEPT !.text = sp.val])
    [] at = "hash" ->
         LET h == HmacHex(call.secret, frame.text)
         IN IF h.kind = "raise" THEN End(frame, h)
            ELSE GoOn("return", [frame EXCEPT !.hash = h.val])
    [] at = "return" ->
         End(frame, CompareDigest(frame.received_hash, frame.hash))

VerifyStep(call, at, frame, clock) ==
  LET r == VerifyTry(call, at, frame, clock)
  IN [r EXCEPT !.result = Caught(r.result, ExceptClause, Return(FALSE))]

(* One statement of parse_event. *)
ParseStep(call, at, frame) ==
  LET r == CASE at = "payload_str" ->
                  IF call.payload.ty = "bytes"
                  THEN LET d == Utf8Decode(call.payload.v)
                       IN IF d.ok THEN GoOn("return", [frame EXCEPT !.text = d.s])
                          ELSE End(frame, Raise("UnicodeDecodeError"))
                  ELSE IF call.payload.ty = "str"
                    THEN GoOn("return", [frame EXCEPT !.text = call.payload.v])
                  ELSE End(frame, Raise("TypeError"))
             [] at = "return" -> End(frame, JsonLoads(frame.text))
  IN [r EXCEPT !.result = Caught(r.result, ParseExceptClause, MalformedPayload)]

FirstStatement(op) ==
  CASE op = "create_signature" -> "ts"
    [] op = "verify_signature" -> "elements"
    [] op = "parse_event" -> "payload_str"

(* The statements that call time.time(): ts = timestamp or                 *)
(* int(time.time()) when timestamp is None or 0, and now = int(time.time()).*)
ReadsClock(call, at) ==
  \/ /\ call.op = "create_signature"
     /\ at = "ts"
     /\ (call.timestamp.ty = "none" \/ call.timestamp.n = 0)
  \/ call.op = "verify_signature" /\ at = "now"

(* The calls the threads make. *)
ThreadCalls ==
  LET P == Bytes(<<65>>)
      K == <<107>>
  IN {CreateCall(P, K, NoneT), CreateCall(P, K, IntV(5)),
      CreateCall(Bytes(<<195>>), K, NoneT),
      VerifyCall(P, HeaderFor(P, K, 0), K, 0),
      VerifyCall(P, HeaderFor(P, K, 1), K, 0),
      VerifyCall(P, Str(<<cX>>), K, 0),
      ParseCall(Bytes(<<cOne>>)), ParseCall(Bytes(<<cLBracket>>)),
      ParseCall(Bytes(<<195>>))}

NotStarted ==
  [call |-> ParseCall(NoneV), at |-> "idle", clock |-> 0, reads |-> 0,
   result |-> NotCalled]

InitThreads ==
  /\ OnlyThreads
  /\ cNow = 0
  /\ cTicks = 0
  /\ cThreads = [t \in Threads |-> NotStarted]
  /\ cFrames = [f \in Threads |-> EmptyFrame]

(* time.time() moves on while the threads run. *)
ThreadTick ==
  /\ cTicks < MaxTicks
  /\ cNow' = cNow + 1
  /\ cTicks' = cTicks + 1
  /\ UNCHANGED <<cThreads, cFrames, notThreadVars>>

(* Thread t enters a call: its local variables are not yet assigned. *)
StartCall(t, call) ==
  /\ cThreads[t].at = "idle"
  /\ cThreads' = [cThreads EXCEPT ![t] =
                    [call |-> call, at |-> FirstStatement(call.op),
                     clock |-> 0, reads |-> 0, result |-> NotCalled]]
  /\ cFrames' = [cFrames EXCEPT ![FrameOf(t)] = EmptyFrame]
  /\ UNCHANGED <<cNow, cTicks, notThreadVars>>

(* Thread t runs the next statement of its call. *)
RunStatement(t) ==
  LET th == cThreads[t]
      frame == cFrames[FrameOf(t)]
      r == CASE th.call.op = "create_signature" ->
                  CreateStep(th.call, th.at, frame, cNow)
             [] th.call.op = "verify_signature" ->
                  VerifyStep(th.call, th.at, frame, cNow)
             [] th.call.op = "parse_event" ->
                  ParseStep(th.call, th.at, frame)
  IN /\ th.at \notin {"idle", "done"}
     /\ cThreads' = [cThreads EXCEPT ![t] =
                       [call |-> th.call, at |-> r.at,
                        clock |-> IF ReadsClock(th.call, th.at)
                                  THEN cNow ELSE th.clock,
                        reads |-> IF ReadsClock(th.call, th.at)
                                  THEN th.reads + 1 ELSE th.reads,
                        result |-> r.result]]
     /\ cFrames' = [cFrames EXCEPT ![FrameOf(t)] = r.frame]
     /\ UNCHANGED <<cNow, cTicks, notThreadVars>>

NextThreads ==
  \/ ThreadTick
  \/ \E t \in Threads, call \in ThreadCalls : StartCall(t, call)
  \/ \E t \in Threads : RunStatement(t)

SpecThreads == InitThreads /\ [][NextThreads]_vars

(* What the call of a thread returns when it runs alone with the clock     *)
(* value the thread read.                                                  *)
Alone(th) ==
  CASE th.call.op = "create_signature" ->
         create_signature(th.call.payload, th.call.secret, th.call.timestamp,
                          th.clock)
    [] th.call.op = "verify_signature" ->
         verify_signature(th.call.payload, th.call.signature, th.call.secret,
                          th.call.tolerance, th.clock)
    [] th.call.op = "parse_event" -> parse_event(th.call.payload)

(* C15: no shared mutable state.  Under every interleaving of the threads' *)
(* statements, each finished call of create_signature, verify_signature or *)
(* parse_event has the result it has when run alone with the same          *)
(* arguments and the same clock value.                                     *)
C15_ConcurrentAsAlone ==
  \A t \in Threads :
    cThreads[t].at = "done" => cThreads[t].result = Alone(cThreads[t])

(* Two threads have finished in one run, one a create_signature call and  *)
(* one a verify_signature call that returned true; they read different     *)
(* clock values and hold different timestamps in their local variables.    *)
C15_Witness ==
  /\ cThreads[1].at = "done"
  /\ cThreads[2].at = "done"
  /\ cThreads[1].call.op = "create_signature"
  /\ cThreads[2].call.op = "verify_signature"
  /\ cThreads[1].result.kind = "return"
  /\ cThreads[2].result = Return(TRUE)
  /\ cThreads[1].clock # cThreads[2].clock
  /\ cFrames[1].ts # cFrames[2].ts

----------------------------------------------------------------------------
(* The webhook server of the examples: handle_webhook, statement by        *)
(* statement, for one inbound request.                                     *)

(* tolerance: int = 300 *)
DefaultTolerance == 300

(* self.webhook_secret, and the secret of somebody else. *)
WebhookSecret == <<107>>
ForeignSecret == <<115>>

KeyTrack == <<116, 114, 97, 99, 107>>
TrackFields ==
  {<<116, 105, 116, 108, 101>>, <<97, 114, 116, 105, 115, 116>>, KeyId,
   <<100, 117, 114, 97, 116, 105, 111, 110>>}

(* value[key] *)
Subscript(value, key) ==
  IF value.jt # "object" THEN Raise("TypeError")
  ELSE LET at == {i \in 1..Len(value.members) : value.members[i].k = key}
       IN IF at = {} THEN Raise("KeyError")
          ELSE Return(value.members[CHOOSE i \in at : \A j \in at : j <= i].v)

(* not signature *)
Falsy(signature) == signature.ty = "none" \/ Len(signature.v) = 0

(* The test on what verify_signature returned, letting everything pass. *)
Rejects_Nothing(verified) == FALSE
(* if not WebhookResource.verify_signature(...) *)
Rejects(verified) == ~verified.val

(* The lookups of the log lines: event['type'], event['id'],               *)
(* event['timestamp']; the first that raises ends them.                    *)
LogEvent(event) ==
  LET type == Subscript(event, KeyType)
      id == Subscript(event, KeyId)
      timestamp == Subscript(event, KeyTimestamp)
  IN IF type.kind = "raise" THEN type
     ELSE IF id.kind = "raise" THEN id
     ELSE IF timestamp.kind = "raise" THEN timestamp
     ELSE Return(JLit("null"))

(* _handle_track_uploaded(data) *)
handle_track_uploaded(data) ==
  LET track == Subscript(data, KeyTrack)
  IN IF track.kind = "raise" THEN track
     ELSE IF track.val.jt # "object" THEN Raise("TypeError")
     ELSE IF \E k \in TrackFields : ~HasKey(track.val, k) THEN Raise("KeyError")
     ELSE Return(JLit("null"))

(* _process_webhook_event(event): what it prints last ("error" for the     *)
(* line of its except clause); it returns None in every case.  Of the      *)
(* event types it dispatches on, the documents here bear track.uploaded.   *)
process_webhook_event(event) ==
  LET event_type == Subscript(event, KeyType)
      event_data == Subscript(event, KeyData)
  IN IF event_type.kind = "raise" \/ event_data.kind = "raise" THEN "error"
     ELSE IF event_type.val = JStr(TrackUploaded)
       THEN IF handle_track_uploaded(event_data.val).kind = "raise"
            THEN "error" ELSE "track uploaded"
     ELSE "unknown event type"

(* except Exception, with fewer classes in the clause. *)
HandlerExceptClause_ValueErrorOnly == {"ValueError"}
HandlerExceptClause == {"Exception"}

(* The status handle_webhook answers with when exc is raised inside its    *)
(* try block: 400 from the except clause, 500 from the framework if the    *)
(* exception leaves the handler.                                           *)
StatusOfException(exc) ==
  IF \E c \in HandlerExceptClause : IsSubclass(exc, c) THEN 400 ELSE 500

(* The same document as EventDoc without its "data" member. *)
NoDataDoc ==
  ObjectDoc(<<Member(KeyId, Quoted(<<65>>)), Member(KeyType, Quoted(OtherType)),
              Member(KeyTimestamp, Quoted(<<cOne>>))>>)

(* The bodies of the requests: events, documents that are no events, text  *)
(* that is no document, bytes that are no text.                            *)
RequestBodies ==
  {Bytes(d) : d \in {EventDoc(TrackUploaded), EventDoc(OtherType), NoTypeDoc,
                     NoDataDoc, Nested(1), Nested(MaxNesting + 1),
                     <<cLBracket>>, <<195>>}}

(* The signature headers a request with this body can bear when the clock  *)
(* is clock: none, an empty one, one without tokens, one the sender made   *)
(* now, at the edge of the tolerance and beyond it, and one made with      *)
(* another secret.                                                         *)
RequestHeaders(body, clock) ==
  {NoneV, Str(<<>>), Str(<<cX>>)}
  \cup (IF WellFormedUtf8(body)
        THEN {HeaderFor(body, WebhookSecret, clock),
              HeaderFor(body, WebhookSecret, clock - DefaultTolerance),
              HeaderFor(body, WebhookSecret, clock - DefaultTolerance - 1),
              HeaderFor(body, ForeignSecret, clock)}
        ELSE {Str(TPrefix \o IntToStr(clock) \o <<cComma>> \o JunkHash)})

InitHandler ==
  /\ OnlyHandler
  /\ hNow = 1000
  /\ hTicks = 0
  /\ hAt = "idle"
  /\ hHeader = NoneV
  /\ hBody = NoneV
  /\ hVerify = NotCalled
  /\ hVerifyNow = 0
  /\ hEvent = NotCalled
  /\ hCalls = <<>>
  /\ hResponse = 0

(* The handler returns a response with this status. *)
RespondWith(status) ==
  /\ hAt' = "responded"
  /\ hResponse' = status

(* time.time() moves on while the request is handled. *)
HandlerTick ==
  /\ hTicks < MaxTicks
  /\ hAt # "responded"
  /\ hNow' = hNow + 1
  /\ hTicks' = hTicks + 1
  /\ UNCHANGED <<hAt, hHeader, hBody, hVerify, hVerifyNow, hEvent, hCalls,
                 hResponse, notHandlerVars>>

(* A POST arrives at the webhook path. *)
Receive(body, header) ==
  /\ hAt = "idle"
  /\ hAt' = "signature"
  /\ hBody' = body
  /\ hHeader' = header
  /\ UNCHANGED <<hNow, hTicks, hVerify, hVerifyNow, hEvent, hCalls, hResponse,
                 notHandlerVars>>

(* signature = request.headers.get(...); if not signature: return 401 *)
GetSignature ==
  /\ hAt = "signature"
  /\ IF Falsy(hHeader) THEN RespondWith(401)
     ELSE hAt' = "verify" /\ UNCHANGED hResponse
  /\ UNCHANGED <<hNow, hTicks, hHeader, hBody, hVerify, hVerifyNow, hEvent,
                 hCalls, notHandlerVars>>

(* if not WebhookResource.verify_signature(payload, signature,             *)
(*                                         self.webhook_secret): return 401 *)
CallVerify ==
  LET r == verify_signature(hBody, hHeader, WebhookSecret, DefaultTolerance,
                            hNow)
  IN /\ hAt = "verify"
     /\ hVerify' = r
     /\ hVerifyNow' = hNow
     /\ hCalls' = Append(hCalls, "verify_signature")
     /\ IF r.kind = "raise" THEN RespondWith(StatusOfException(r.exc))
        ELSE IF Rejects(r) THEN RespondWith(401)
        ELSE hAt' = "parse" /\ UNCHANGED hResponse
     /\ UNCHANGED <<hNow, hTicks, hHeader, hBody, hEvent, notHandlerVars>>

(* event = WebhookResource.parse_event(payload) *)
CallParse ==
  LET r == parse_event(hBody)
  IN /\ hAt = "parse"
     /\ hEvent' = r
     /\ hCalls' = Append(hCalls, "parse_event")
     /\ IF r.kind = "raise" THEN RespondWith(StatusOfException(r.exc))
        ELSE hAt' = "log" /\ UNCHANGED hResponse
     /\ UNCHANGED <<hNow, hTicks, hHeader, hBody, hVerify, hVerifyNow,
                    notHandlerVars>>

(* The three print calls on the event. *)
Log ==
  LET r == LogEvent(hEvent.val)
  IN /\ hAt = "log"
     /\ IF r.kind = "raise" THEN RespondWith(StatusOfException(r.exc))
        ELSE hAt' = "process" /\ UNCHANGED hResponse
     /\ UNCHANGED <<hNow, hTicks, hHeader, hBody, hVerify, hVerifyNow, hEvent,
                    hCalls, notHandlerVars>>

(* self._process_webhook_event(event); return jsonify({...}) *)
CallProcess ==
  /\ hAt = "process"
  /\ hCalls' = Append(hCalls, "_process_webhook_event")
  /\ RespondWith(200)
  /\ UNCHANGED <<hNow, hTicks, hHeader, hBody, hVerify, hVerifyNow, hEvent,
                 notHandlerVars>>

NextHandler ==
  \/ HandlerTick
  \/ \E body \in RequestBodies :
       \E header \in RequestHeaders(body, hNow) : Receive(body, header)
  \/ GetSignature
  \/ CallVerify
  \/ CallParse
  \/ Log
  \/ CallProcess

SpecHandler == InitHandler /\ [][NextHandler]_vars

----------------------------------------------------------------------------
(* Properties of handle_webhook. *)

(* What verify_signature returns for the request: at the clock of the      *)
(* handler's call where it made one.                                       *)
RequestVerifies ==
  verify_signature(hBody, hHeader, WebhookSecret, DefaultTolerance,
                   IF hVerify = NotCalled THEN hNow ELSE hVerifyNow)

Called(name) == \E i \in 1..Len(hCalls) : hCalls[i] = name

(* C16: verify before parse.  handle_webhook calls parse_event and         *)
(* _process_webhook_event only after verify_signature has returned true    *)
(* for the body of the same request; with the signature header missing or  *)
(* verification false, the body is neither parsed nor processed.           *)
C16_VerifyBeforeParse ==
  /\ (Called("parse_event") \/ Called("_process_webhook_event")
        \/ hEvent # NotCalled)
     => /\ hCalls[1] = "verify_signature"
        /\ hVerify = Return(TRUE)
        /\ RequestVerifies = Return(TRUE)
  /\ (hAt # "idle" /\ (Falsy(hHeader) \/ hVerify = Return(FALSE)))
     => /\ ~Called("parse_event")
        /\ ~Called("_process_webhook_event")
        /\ hEvent = NotCalled

(* A request was verified, parsed and processed, in that order; the        *)
(* processing printed its error line and the handler went on.              *)
C16_Witness ==
  /\ hCalls = <<"verify_signature", "parse_event", "_process_webhook_event">>
  /\ process_webhook_event(hEvent.val) = "error"
  /\ hVerify = Return(TRUE)
  /\ hEvent.kind = "return"
  /\ hResponse = 200

(* C17: response codes.  handle_webhook answers 401 exactly when the       *)
(* signature header is missing or verify_signature returns false for the   *)
(* request, 400 when the verified payload cannot be parsed, and 200 for    *)
(* every verified payload that parses into an event.                       *)
C17_ResponseCodes ==
  hAt = "responded" =>
    /\ hResponse = 401 <=> (hHeader.ty = "none" \/ RequestVerifies = Return(FALSE))
    /\ (hVerify = Return(TRUE) /\ hEvent.kind = "raise") => hResponse = 400
    /\ (hVerify = Return(TRUE) /\ hEvent.kind = "return"
          /\ IsWebhookEvent(hEvent.val)) => hResponse = 200

(* A verified payload whose parsing raised, and not the malformed-payload  *)
(* error: the handler answered 400.                                        *)
C17_Witness ==
  /\ hAt = "responded"
  /\ hVerify = Return(TRUE)
  /\ hEvent.kind = "raise"
  /\ hEvent # MalformedPayload
  /\ hResponse = 400

----------------------------------------------------------------------------
(* The methods of WebhooksResource and TracksResource that reach the HTTP  *)
(* client through self.get, self.put and self.delete.                      *)

(* The calls the interpreter's recursion limit lets nest (scaled down). *)
MaxCallDepth == 3

cSlash == 47

ResourceClasses == {"WebhooksResource", "TracksResource"}

(* super().__init__(http_client, '/webhooks'), (http_client, '/tracks') *)
BasePath(cls) ==
  IF cls = "WebhooksResource"
  THEN <<47, 119, 101, 98, 104, 111, 111, 107, 115>>
  ELSE <<47, 116, 114, 97, 99, 107, 115>>

(* The method resolution order, and the methods each class defines. *)
Mro(cls) == <<cls, "PaginatedResource", "BaseResource">>

Defines(cls) ==
  CASE cls \in ResourceClasses -> {"list", "get", "update", "delete"}
    [] cls = "PaginatedResource" -> {"list_all", "iterate_pages", "iterate_items"}
    [] cls = "BaseResource" -> {"get", "post", "put", "patch", "delete"}

(* The class whose definition self.name is, for an instance of cls. *)
Owner(cls, name) ==
  LET mro == Mro(cls)
      at == {i \in 1..Len(mro) : name \in Defines(mro[i])}
  IN mro[CHOOSE i \in at : \A j \in at : i <= j]

(* The keyword arguments the definition of a method accepts. *)
Keywords(owner, name) ==
  IF owner = "BaseResource"
  THEN IF name \in {"get", "delete"} THEN {"path", "params"}
       ELSE {"path", "json_data", "params"}
  ELSE CASE name = "list" -> {"params"}
         [] name = "get" -> {"id"}
         [] name = "delete" -> {"id"}
         [] name = "update" -> {"id", "updates"}

(* The call a method of the resource classes makes on self: the method,    *)
(* its positional argument and the keywords it passes.                     *)
SelfCall(name, arg) ==
  CASE name = "list" -> [name |-> "get", arg |-> <<>>, keywords |-> {"params"}]
    [] name = "get" -> [name |-> "get", arg |-> <<cSlash>> \o arg, keywords |-> {}]
    [] name = "delete" ->
         [name |-> "delete", arg |-> <<cSlash>> \o arg, keywords |-> {}]
    [] name = "update" ->
         [name |-> "put", arg |-> <<cSlash>> \o arg, keywords |-> {"json_data"}]

(* _build_path(path) *)
build_path(cls, path) ==
  IF Len(path) = 0 THEN BasePath(cls)
  ELSE IF ~StartsWith(path, <<cSlash>>) THEN BasePath(cls) \o <<cSlash>> \o path
  ELSE BasePath(cls) \o path

(* extract_data(response) *)
extract_data(response) ==
  IF HasKey(response, KeyData) THEN Subscript(response, KeyData).val
  ELSE response

Verb(name) ==
  CASE name = "get" -> "GET" [] name = "put" -> "PUT" [] name = "delete" -> "DELETE"

(* The ids the methods are called with, and what the server answers. *)
ResourceIds == {<<97>>, <<98>>, <<97, 98>>, <<98, 97>>, <<cSlash, 97>>}
Responses == {JObject(<<[k |-> KeyData, v |-> JInt(1)]>>), JObject(<<>>)}

InitResource ==
  /\ OnlyResource
  /\ NoResourceCall

(* The application calls resource.name(arg) on an instance of cls; for     *)
(* list the argument is params.                                            *)
Invoke(cls, name, arg) ==
  /\ rResource = ""
  /\ rResource' = cls
  /\ rMethod' = name
  /\ rArg' = arg
  /\ rStack' = <<[owner |-> Owner(cls, name), name |-> name, arg |-> arg.v]>>
  /\ UNCHANGED <<rReturn, rRequests, rResult, notResourceVars>>

(* The innermost call is in a method of the resource class, which          *)
(* validates its argument and then calls self.get, self.put or             *)
(* self.delete.                                                            *)
CallSelf ==
  LET top == rStack[Len(rStack)]
      call == SelfCall(top.name, top.arg)
      owner == Owner(rResource, call.name)
      raised(exc) == /\ rStack' = <<>>
                     /\ rResult' = Raise(exc)
  IN /\ rStack # <<>>
     /\ rReturn = NotCalled
     /\ top.owner \in ResourceClasses
     /\ IF ~(call.keywords \subseteq Keywords(owner, call.name))
        THEN raised("TypeError")
        ELSE IF Len(rStack) >= MaxCallDepth THEN raised("RecursionError")
        ELSE /\ rStack' = Append(rStack, [owner |-> owner, name |-> call.name,
                                          arg |-> call.arg])
             /\ UNCHANGED rResult
     /\ UNCHANGED <<rResource, rMethod, rArg, rReturn, rRequests,
                    notResourceVars>>

(* The innermost call is in a method of BaseResource, which builds the     *)
(* path and awaits the HTTP client.                                        *)
SendRequest(response) ==
  LET top == rStack[Len(rStack)]
  IN /\ rStack # <<>>
     /\ rReturn = NotCalled
     /\ top.owner = "BaseResource"
     /\ rRequests' = Append(rRequests, [verb |-> Verb(top.name),
                                        path |-> build_path(rResource, top.arg)])
     /\ rReturn' = Return(response)
     /\ rStack' = SubSeq(rStack, 1, Len(rStack) - 1)
     /\ UNCHANGED <<rResource, rMethod, rArg, rResult, notResourceVars>>

(* A method of the resource class gets the response of its call on self    *)
(* and returns the data extracted from it.                                 *)
ReturnData ==
  /\ rStack # <<>>
  /\ rReturn # NotCalled
  /\ rStack' = SubSeq(rStack, 1, Len(rStack) - 1)
  /\ IF Len(rStack) = 1
     THEN rResult' = Return(extract_data(rReturn.val)) /\ rReturn' = NotCalled
     ELSE rReturn' = Return(extract_data(rReturn.val)) /\ UNCHANGED rResult
  /\ UNCHANGED <<rResource, rMethod, rArg, rRequests, notResourceVars>>

NextResource ==
  \/ \E cls \in ResourceClasses, name \in {"get", "update", "delete"},
        id \in ResourceIds : Invoke(cls, name, Str(id))
  \/ \E cls \in ResourceClasses : Invoke(cls, "list", Str(<<>>))
  \/ CallSelf
  \/ \E response \in Responses : SendRequest(response)
  \/ ReturnData

SpecResource == InitResource /\ [][NextResource]_vars

(* C18: get(id), delete(id) and list(params) of WebhooksResource and       *)
(* TracksResource end by returning, having sent exactly one request, GET   *)
(* or DELETE, for '<base_path>/<id>' (for '<base_path>' for list).         *)
C18_OneRequestThenReturn ==
  (rResult # NotCalled /\ rMethod \in {"get", "delete", "list"})
  => /\ rResult.kind = "return"
     /\ rRequests = <<[verb |-> IF rMethod = "delete" THEN "DELETE" ELSE "GET",
                       path |-> IF rMethod = "list" THEN BasePath(rResource)
                                ELSE BasePath(rResource) \o <<cSlash>> \o rArg.v]>>

----------------------------------------------------------------------------
(* create_error_from_response *)

KeyError_ == <<101, 114, 114, 111, 114>>
KeyMessage == <<109, 101, 115, 115, 97, 103, 101>>
KeyMeta == <<109, 101, 116, 97>>
KeyRequestId == <<114, 101, 113, 117, 101, 115, 116, 73, 100>>
KeyDetails == <<100, 101, 116, 97, 105, 108, 115>>
KeyValidation == <<118, 97, 108, 105, 100, 97, 116, 105, 111, 110>>
KeyRateLimit == <<114, 97, 116, 101, 76, 105, 109, 105, 116>>
UnknownErrorMessage ==
  <<85, 110, 107, 110, 111, 119, 110, 32, 101, 114, 114, 111, 114>>

(* value.get(key, default): only a dict has the method. *)
Get(value, key, default) ==
  IF value.jt # "object" THEN Raise("AttributeError")
  ELSE IF HasKey(value, key) THEN Subscript(value, key)
  ELSE Return(default)

(* The class create_error_from_response picks for a status. *)
ErrorClass(status_code) ==
  IF status_code = 400 THEN "ValidationError"
  ELSE IF status_code = 401 THEN "AuthenticationError"
  ELSE IF status_code = 403 THEN "AuthorizationError"
  ELSE IF status_code = 404 THEN "NotFoundError"
  ELSE IF status_code = 429 THEN "RateLimitError"
  ELSE IF 500 <= status_code /\ status_code < 600 THEN "ServerError"
  ELSE "UnknownError"

create_error_from_response(response_data, status_code) ==
  LET error == Get(response_data, KeyError_, JObject(<<>>))
  IN IF error.kind = "raise" THEN error
     ELSE
       LET message == Get(error.val, KeyMessage, JStr(UnknownErrorMessage))
           meta == Get(response_data, KeyMeta, JObject(<<>>))
       IN IF message.kind = "raise" THEN message
          ELSE IF meta.kind = "raise" THEN meta
          ELSE
            LET request_id == Get(meta.val, KeyRequestId, JLit("null"))
                details == Get(error.val, KeyDetails, JObject(<<>>))
                exception ==
                  Return([class |-> ErrorClass(status_code),
                          status_code |-> status_code,
                          message |-> message.val])
            IN IF request_id.kind = "raise" THEN request_id
               ELSE IF details.kind = "raise" THEN details
               ELSE IF status_code = 400
                 THEN LET validation_errors ==
                            Get(details.val, KeyValidation, JLit("null"))
                      IN IF validation_errors.kind = "raise"
                         THEN validation_errors ELSE exception
               ELSE IF status_code = 429
                 THEN LET rate_limit_data ==
                            Get(meta.val, KeyRateLimit, JObject(<<>>))
                      IN IF rate_limit_data.kind = "raise" THEN rate_limit_data
                         ELSE IF rate_limit_data.val.jt # "object"
                           THEN Raise("AttributeError")
                         ELSE exception
               ELSE exception

(* The status codes of the responses, around each case of the mapping. *)
StatusCodes ==
  {100, 200, 204, 302, 399, 400, 401, 402, 403, 404, 405, 418, 428, 429, 430,
   499, 500, 501, 503, 599, 600}

(* The bodies of the error responses: the documented shape with and        *)
(* without its optional parts, and bodies where "error" or "details" is    *)
(* no mapping.                                                             *)
ErrorBodies ==
  LET m == [k |-> KeyMessage, v |-> JStr(<<109>>)]
  IN {JObject(<<>>),
      JObject(<<[k |-> KeyError_, v |-> JObject(<<m>>)]>>),
      JObject(<<[k |-> KeyError_,
                 v |-> JObject(<<m, [k |-> KeyDetails, v |-> JObject(<<>>)]>>)],
                [k |-> KeyMeta,
                 v |-> JObject(<<[k |-> KeyRequestId, v |-> JStr(<<114>>)]>>)]>>),
      JObject(<<[k |-> KeyError_, v |-> JStr(<<109>>)]>>),
      JObject(<<[k |-> KeyError_,
                 v |-> JObject(<<m, [k |-> KeyDetails, v |-> JLit("null")]>>)]>>),
      JArray(<<>>)}

InitError ==
  /\ OnlyError
  /\ NoError

(* _make_request raises create_error_from_response(error_data, status). *)
MakeError(response_data, status_code) ==
  /\ eResult = NotCalled
  /\ eData' = response_data
  /\ eStatus' = status_code
  /\ eResult' = create_error_from_response(response_data, status_code)
  /\ UNCHANGED notErrorVars

NextError ==
  \E response_data \in ErrorBodies, status_code \in StatusCodes :
    MakeError(response_data, status_code)

SpecError == InitError /\ [][NextError]_vars

(* C19: create_error_from_response maps every status to one exception     *)
(* class (400 ValidationError, 401 AuthenticationError, 403                *)
(* AuthorizationError, 404 NotFoundError, 429 RateLimitError, 500..599     *)
(* ServerError, any other UnknownError), and the exception it returns      *)
(* carries the status.                                                     *)
C19_StatusToClass ==
  eResult # NotCalled
  => /\ eResult.kind = "return"
     /\ eResult.val.status_code = eStatus
     /\ eResult.val.class =
          CASE eStatus = 400 -> "ValidationError"
            [] eStatus = 401 -> "AuthenticationError"
            [] eStatus = 403 -> "AuthorizationError"
            [] eStatus = 404 -> "NotFoundError"
            [] eStatus = 429 -> "RateLimitError"
            [] eStatus \in 500..599 -> "ServerError"
            [] OTHER -> "UnknownError"

----------------------------------------------------------------------------
(* HttpClient._make_request: the retry loop, one HTTP attempt at a time.   *)

(* The largest max_retries a client is made with. *)
MaxRetries == 2

(* retry_delay: float = 1.0 *)
RetryDelay == 1

(* The longest wait for a rate limit, in seconds. *)
MaxWait == 60

Min(a, b) == IF a < b THEN a ELSE b

(* float(retry_after), for text that is a whole number or no number. *)
ParseFloat(text) == ParseInt(text)

(* for attempt in range(self.max_retries + 1) *)
LoopRange(max_retries) == 0..max_retries

(* What an HTTP attempt can come to: a response with a status, with or     *)
(* without a Retry-After header and with a JSON body, or an exception of   *)
(* the session.                                                            *)
RetryAfterHeaders == {NoneV, Str(<<>>), Str(<<50>>), Str(<<49, 50, 48>>), Str(<<cX>>)}
ResponseBodies ==
  {JObject(<<[k |-> KeyError_,
              v |-> JObject(<<[k |-> KeyMessage, v |-> JStr(<<109>>)]>>)]>>),
   JObject(<<[k |-> KeyError_, v |-> JStr(<<109>>)]>>)}

AttemptOutcomes ==
  {[kind |-> "response", status |-> st, retry_after |-> NoneV,
    body |-> JObject(<<>>)] : st \in {200, 204, 500, 503}}
  \cup {[kind |-> "response", status |-> 429, retry_after |-> h,
         body |-> b] : h \in RetryAfterHeaders, b \in ResponseBodies}
  \cup {[kind |-> "response", status |-> st, retry_after |-> NoneV,
         body |-> b] : st \in {302, 404, 500}, b \in ResponseBodies}
  \cup {[kind |-> "aiohttp.ClientError"], [kind |-> "asyncio.TimeoutError"]}

(* raise create_error_from_response(error_data, response.status) *)
RaiseFromResponse(body, status) ==
  LET e == create_error_from_response(body, status)
  IN IF e.kind = "raise" THEN e ELSE Raise(e.val.class)

NetworkError(message) ==
  [kind |-> "raise", exc |-> "NetworkError", msg |-> message]

(* What one iteration of the loop does with the outcome of its attempt:    *)
(* return or raise (result), sleep and continue (wait), or break.          *)
Iteration(outcome, attempt, max_retries) ==
  LET ends(result) == [then |-> "done", result |-> result, wait |-> 0,
                       last |-> "None"]
      continues(wait, last) == [then |-> "sleep", result |-> NotCalled,
                                wait |-> wait, last |-> last]
      breaks(last) == [then |-> "after_loop", result |-> NotCalled, wait |-> 0,
                       last |-> last]
      backoff == RetryDelay * 2^attempt
  IN IF outcome.kind = "response"
     THEN IF 200 <= outcome.status /\ outcome.status < 300
            THEN ends(Return(outcome.status))
          ELSE IF outcome.status = 429 /\ attempt < max_retries
            THEN IF ~Falsy(outcome.retry_after)
                 THEN LET seconds == ParseFloat(outcome.retry_after.v)
                      IN IF ~seconds.ok THEN ends(Raise("ValueError"))
                         ELSE continues(Min(seconds.n, MaxWait), "None")
                 ELSE continues(Min(backoff, MaxWait), "None")
          ELSE IF outcome.status >= 500 /\ attempt < max_retries
            THEN continues(backoff, "None")
          ELSE ends(RaiseFromResponse(outcome.body, outcome.status))
     ELSE LET last == IF outcome.kind = "aiohttp.ClientError"
                      THEN "Network error" ELSE "Request timeout"
          IN IF attempt < max_retries THEN continues(backoff, last)
             ELSE breaks(last)

(* A call of _make_request on a client made with some max_retries. *)
InitHttp ==
  /\ OnlyHttpRequest
  /\ qMaxRetries \in 0..MaxRetries
  /\ qAt = "rate_limit"
  /\ qAttempt = 0
  /\ qAttempts = <<>>
  /\ qWaits = <<>>
  /\ qLast = "None"
  /\ qResult = NotCalled

(* await self._handle_rate_limiting(): a wait of at most MaxWait when the  *)
(* client is close to its limit, wait_time being the time to the reset.    *)
HandleRateLimiting(wait_time) ==
  /\ qAt = "rate_limit"
  /\ qWaits' = IF wait_time > 0
               THEN <<[after |-> -1,
                       seconds |-> Min(wait_time, MaxWait)]>>
               ELSE <<>>
  /\ qAt' = "request"
  /\ UNCHANGED <<qMaxRetries, qAttempt, qAttempts, qLast, qResult,
                 notRequestVars>>

(* self.session.request(...) comes to an outcome, and the body of the loop *)
(* runs on it.                                                             *)
Attempt(outcome) ==
  LET r == Iteration(outcome, qAttempt, qMaxRetries)
  IN /\ qAt = "request"
     /\ qAttempts' = Append(qAttempts, outcome)
     /\ qAt' = r.then
     /\ qResult' = r.result
     /\ qWaits' = IF r.then = "sleep"
                  THEN Append(qWaits, [after |-> qAttempt, seconds |-> r.wait])
                  ELSE qWaits
     /\ qLast' = IF r.last = "None" THEN qLast ELSE r.last
     /\ UNCHANGED <<qMaxRetries, qAttempt, notRequestVars>>

(* A loop that goes round again without counting the attempt. *)
Continue_SameAttempt ==
  /\ qAt = "sleep"
  /\ qAt' = "request"
  /\ UNCHANGED <<qMaxRetries, qAttempt, qAttempts, qWaits, qLast, qResult,
                 notRequestVars>>

(* asyncio.sleep(wait_time) ends; continue: the loop goes to its next      *)
(* iteration, or is over.                                                  *)
Continue ==
  /\ qAt = "sleep"
  /\ IF qAttempt + 1 \in LoopRange(qMaxRetries)
     THEN qAttempt' = qAttempt + 1 /\ qAt' = "request"
     ELSE qAt' = "after_loop" /\ UNCHANGED qAttempt
  /\ UNCHANGED <<qMaxRetries, qAttempts, qWaits, qLast, qResult,
                 notRequestVars>>

(* After the loop: raise last_exception, or a NetworkError if there is     *)
(* none.                                                                   *)
AfterLoop ==
  /\ qAt = "after_loop"
  /\ qAt' = "done"
  /\ qResult' = IF qLast # "None" THEN NetworkError(qLast)
                ELSE NetworkError("Request failed after all retries")
  /\ UNCHANGED <<qMaxRetries, qAttempt, qAttempts, qWaits, qLast,
                 notRequestVars>>

NextHttp ==
  \/ \E wait_time \in {0, 5, 70} : HandleRateLimiting(wait_time)
  \/ \E outcome \in AttemptOutcomes : Attempt(outcome)
  \/ Continue
  \/ AfterLoop

SpecHttp == InitHttp /\ [][NextHttp]_vars

(* The session answers every request or raises (its timeout sees to        *)
(* that), and every sleep ends: each step of the call is taken.            *)
FairSpecHttp == SpecHttp /\ WF_vars(NextHttp)

(* C20: retry bound.  A call of _make_request with max_retries = N makes   *)
(* at most N + 1 HTTP attempts, whatever responses, network errors and     *)
(* timeouts they come to; it ends, and ends by returning a 2xx response or *)
(* by raising an exception.                                                *)
C20_RetryBound ==
  /\ [](Len(qAttempts) <= qMaxRetries + 1)
  /\ [](qAt = "done"
          => \/ qResult.kind = "raise"
             \/ /\ qResult.kind = "return"
                /\ qAttempts[Len(qAttempts)].kind = "response"
                /\ qAttempts[Len(qAttempts)].status \in 200..299
                /\ qResult.val = qAttempts[Len(qAttempts)].status)
  /\ <>(qAt = "done")

(* A call that used up its retries: N + 1 attempts, N of them retried      *)
(* after a 429, a server error and an exception of the session, and the    *)
(* last one raising.                                                       *)
C20_Witness ==
  /\ qAt = "done"
  /\ qMaxRetries = MaxRetries
  /\ Len(qAttempts) = qMaxRetries + 1
  /\ Len(qWaits) >= qMaxRetries
  /\ qResult.kind = "raise"
  /\ \E i \in 1..Len(qAttempts) : qAttempts[i].kind # "response"
  /\ \E i \in 1..Len(qAttempts) :
       qAttempts[i].kind = "response" /\ qAttempts[i].status >= 429

----------------------------------------------------------------------------
(* BaseResource.validate_required, and WebhooksResource.create, which      *)
(* validates its argument before it posts it.                              *)

(* ', '.join(parts) *)
RECURSIVE JoinStr(_, _)
JoinStr(parts, sep) ==
  IF Len(parts) = 0 THEN <<>>
  ELSE IF Len(parts) = 1 THEN parts[1]
  ELSE parts[1] \o sep \o JoinStr(Tail(parts), sep)

(* 'Missing required fields: ' *)
MissingPrefix ==
  <<77, 105, 115, 115, 105, 110, 103, cSpace,
    114, 101, 113, 117, 105, 114, 101, 100, cSpace,
    102, 105, 101, 108, 100, 115, cColon, cSpace>>

KeyUrl == <<117, 114, 108>>
KeyEvents == <<101, 118, 101, 110, 116, 115>>
KeyName == <<110, 97, 109, 101>>

(* field not in data or data[field] is None, with the None test left out *)
IsMissing_AbsentOnly(data, field) == ~HasKey(data, field)

(* field not in data or data[field] is None *)
IsMissing(data, field) ==
  ~HasKey(data, field) \/ Subscript(data, field).val = JLit("null")

ValidationError(missing_fields) ==
  [kind |-> "raise", exc |-> "ValidationError",
   msg |-> MissingPrefix \o JoinStr(missing_fields, <<cComma, cSpace>>),
   missing_fields |-> missing_fields]

(* validate_required(data, required_fields) *)
validate_required(data, required_fields) ==
  LET missing_fields == SelectSeq(required_fields,
                                  LAMBDA name : IsMissing(data, name))
  IN IF Len(missing_fields) > 0 THEN ValidationError(missing_fields)
     ELSE Return(NoneV)

(* The dictionaries the methods are called with: each of url, events and   *)
(* name absent, None or a value.                                           *)
FieldStates == {"absent", "none", "value"}

DataWith(url, events, name) ==
  LET member(k, st) ==
        IF st = "absent" THEN <<>>
        ELSE <<[k |-> k, v |-> IF st = "none" THEN JLit("null")
                               ELSE JStr(<<104>>)]>>
  IN JObject(member(KeyUrl, url) \o member(KeyEvents, events)
               \o member(KeyName, name))

DataDicts ==
  {DataWith(url, events, name) : url \in FieldStates, events \in FieldStates,
                                 name \in FieldStates}

MaxRequired == 2
RequiredLists == SeqsUpTo({KeyUrl, KeyEvents, KeyName}, MaxRequired)

InitValidate ==
  /\ OnlyValidation
  /\ NoValidation

(* resource.validate_required(data, required_fields) *)
ValidateCall(data, required_fields) ==
  /\ dAt = "idle"
  /\ dMethod' = "validate_required"
  /\ dData' = data
  /\ dRequired' = required_fields
  /\ dResult' = validate_required(data, required_fields)
  /\ dAt' = "done"
  /\ UNCHANGED <<dRequests, notValidateVars>>

(* WebhooksResource.create(webhook_data), up to the await of               *)
(* self.post('', json_data=webhook_data).                                  *)
WebhookCreate(webhook_data) ==
  LET required == <<KeyUrl, KeyEvents>>
      checked == validate_required(webhook_data, required)
  IN /\ dAt = "idle"
     /\ dMethod' = "create"
     /\ dData' = webhook_data
     /\ dRequired' = required
     /\ IF checked.kind = "raise"
        THEN /\ dResult' = checked
             /\ dAt' = "done"
             /\ UNCHANGED dRequests
        ELSE /\ dRequests' = <<[verb |-> "POST",
                                path |-> build_path("WebhooksResource", <<>>),
                                json_data |-> webhook_data]>>
             /\ dAt' = "post"
             /\ UNCHANGED dResult
     /\ UNCHANGED notValidateVars

(* The HTTP client answers, and create returns the data of the answer. *)
CreateReturns(response) ==
  /\ dAt = "post"
  /\ dResult' = Return(extract_data(response))
  /\ dAt' = "done"
  /\ UNCHANGED <<dMethod, dData, dRequired, dRequests, notValidateVars>>

NextValidate ==
  \/ \E data \in DataDicts, required_fields \in RequiredLists :
       ValidateCall(data, required_fields)
  \/ \E webhook_data \in DataDicts : WebhookCreate(webhook_data)
  \/ \E response \in Responses : CreateReturns(response)

SpecValidate == InitValidate /\ [][NextValidate]_vars

(* The required fields that the data lacks or holds as None. *)
LackedFields ==
  {dRequired[i] : i \in 1..Len(dRequired)}
    \ {dData.members[j].k : j \in {n \in 1..Len(dData.members) :
                                     dData.members[n].v # JLit("null")}}

(* C21: a validation that ends raises ValidationError when a required      *)
(* field is absent or None, naming exactly those fields in its message and *)
(* in validation_errors, and raises nothing when none is; create has sent  *)
(* no request when it raises, and its request when it has not.             *)
C21_ValidateRequired ==
  dAt # "idle" =>
    /\ (LackedFields = {} /\ dAt = "done") => dResult.kind = "return"
    /\ LackedFields # {} =>
         /\ dAt = "done"
         /\ dResult.kind = "raise"
         /\ dResult.exc = "ValidationError"
         /\ {dResult.missing_fields[i] : i \in 1..Len(dResult.missing_fields)}
              = LackedFields
         /\ dResult.msg
              = MissingPrefix \o JoinStr(dResult.missing_fields, <<cComma, cSpace>>)
         /\ dRequests = <<>>
    /\ (dMethod = "create" /\ LackedFields = {}) => Len(dRequests) = 1

(* create was called without events and with url None, and raised naming   *)
(* both, with no request sent.                                             *)
C21_Witness ==
  /\ dMethod = "create"
  /\ dData = DataWith("none", "absent", "value")
  /\ dAt = "done"
  /\ dResult = ValidationError(<<KeyUrl, KeyEvents>>)
  /\ dRequests = <<>>

----------------------------------------------------------------------------
(* PaginatedResource.list_all: one page of the server at a time.           *)

(* The largest max_pages given, and the most pages a server sends. *)
MaxPagesArg == 3
MaxServerPages == 4

KeyItems == <<105, 116, 101, 109, 115>>
KeyPagination == <<112, 97, 103, 105, 110, 97, 116, 105, 111, 110>>
KeyTotalPages == <<116, 111, 116, 97, 108, 95, 112, 97, 103, 101, 115>>

(* A page of the server: its items, and total_pages when it tells it. *)
PageDoc(items, total_pages) ==
  JObject(<<[k |-> KeyItems, v |-> JArray(items)]>>
          \o IF total_pages = NoneV THEN <<>>
             ELSE <<[k |-> KeyPagination,
                     v |-> JObject(<<[k |-> KeyTotalPages,
                                      v |-> JInt(total_pages.n)]>>)]>>)

ServerPages ==
  {PageDoc(items, total) :
     items \in {<<>>, <<JInt(1)>>, <<JInt(2)>>, <<JInt(1), JInt(2)>>},
     total \in {NoneV} \cup {IntV(n) : n \in 1..MaxServerPages}}

(* max_pages and pages_fetched >= max_pages, with max_pages 0 a limit *)
HitMaxPages_ZeroLimits(max_pages, pages_fetched) ==
  max_pages # NoneV /\ pages_fetched >= max_pages.n

(* max_pages and pages_fetched >= max_pages *)
HitMaxPages(max_pages, pages_fetched) ==
  max_pages # NoneV /\ max_pages.n # 0 /\ pages_fetched >= max_pages.n

InitListing ==
  /\ OnlyListing
  /\ NoListing

(* resource.list_all(max_pages=max_pages) *)
ListAll(max_pages) ==
  /\ lAt = "idle"
  /\ lMaxPages' = max_pages
  /\ lPage' = 1
  /\ lAt' = "loop"
  /\ UNCHANGED <<lFetched, lItems, lRequests, lResult, notPageVars>>

(* One turn of the loop: the page is asked for, the server's answer is     *)
(* read, and the loop goes on or list_all returns.                         *)
FetchPage(response) ==
  LET data == extract_data(response)
      items == Get(data, KeyItems, JArray(<<>>)).val.items
      pagination == Get(data, KeyPagination, JObject(<<>>)).val
      total_pages == Get(pagination, KeyTotalPages, JInt(1)).val.n
      all_items == lItems \o items
      pages_fetched == lFetched + 1
  IN /\ lAt = "loop"
     /\ lFetched < MaxServerPages
     /\ lRequests' = Append(lRequests, lPage)
     /\ lItems' = all_items
     /\ lFetched' = pages_fetched
     /\ IF \/ Len(items) = 0
           \/ lPage >= total_pages
           \/ HitMaxPages(lMaxPages, pages_fetched)
        THEN /\ lAt' = "done"
             /\ lResult' = Return(all_items)
             /\ UNCHANGED lPage
        ELSE /\ lPage' = lPage + 1
             /\ UNCHANGED <<lAt, lResult>>
     /\ UNCHANGED <<lMaxPages, notPageVars>>

NextListing ==
  \/ \E max_pages \in {NoneV} \cup {IntV(n) : n \in 0..MaxPagesArg} :
       ListAll(max_pages)
  \/ \E response \in ServerPages : FetchPage(response)

SpecListing == InitListing /\ [][NextListing]_vars

(* C22: list_all called with an integer max_pages never has fetched more   *)
(* pages than max_pages.                                                   *)
C22_AtMostMaxPages ==
  (lAt # "idle" /\ lMaxPages # NoneV) => lFetched <= lMaxPages.n

----------------------------------------------------------------------------
(* BaseResource.poll_for_completion: the loop of status queries, checks of *)
(* the elapsed time and sleeps, on the clock of the event loop.            *)

(* The largest timeout and poll_interval, in seconds, and the longest a    *)
(* status query takes or a sleep overruns.                                 *)
MaxTimeout == 3
MaxInterval == 2
MaxDelay == 1

(* What get_status_func returns, and the caller's is_complete_func. *)
StatusData == {"processing", "analyzing", "completed", "failed"}
is_complete_func(data) == data \in {"completed", "failed"}

(* elapsed >= timeout, with a check that never holds *)
TimedOut_Never(elapsed, timeout) == FALSE

(* elapsed >= timeout *)
TimedOut(elapsed, timeout) == elapsed >= timeout

InitPolling ==
  /\ OnlyPolling
  /\ NoPolling

(* poll_for_completion(..., poll_interval, timeout), called when the       *)
(* clock of the event loop is clock.                                       *)
PollForCompletion(poll_interval, timeout, clock) ==
  /\ oAt = "idle"
  /\ oNow' = clock
  /\ oStart' = clock
  /\ oInterval' = poll_interval
  /\ oTimeout' = timeout
  /\ oAt' = "status"
  /\ UNCHANGED <<oPolls, oResult, notPollVars>>

(* await get_status_func(resource_id) returns data after took seconds;     *)
(* the data is complete, or the elapsed time is checked.                   *)
StatusReturns(data, took) ==
  LET clock == oNow + took
      elapsed == clock - oStart
  IN /\ oAt = "status"
     /\ oNow' = clock
     /\ oPolls' = Append(oPolls, [data |-> data, at |-> clock])
     /\ IF is_complete_func(data)
        THEN oAt' = "done" /\ oResult' = Return(data)
        ELSE IF TimedOut(elapsed, oTimeout)
        THEN oAt' = "done" /\ oResult' = Raise("TimeoutError")
        ELSE oAt' = "sleep" /\ UNCHANGED oResult
     /\ UNCHANGED <<oStart, oTimeout, oInterval, notPollVars>>

(* await asyncio.sleep(poll_interval) ends, poll_interval seconds later or *)
(* more.                                                                   *)
SleepEnds(overrun) ==
  /\ oAt = "sleep"
  /\ oNow' = oNow + oInterval + overrun
  /\ oAt' = "status"
  /\ UNCHANGED <<oStart, oTimeout, oInterval, oPolls, oResult, notPollVars>>

NextPolling ==
  \/ \E poll_interval \in 1..MaxInterval, timeout \in -1..MaxTimeout,
        clock \in {0, 7} : PollForCompletion(poll_interval, timeout, clock)
  \/ \E data \in StatusData, took \in 0..MaxDelay : StatusReturns(data, took)
  \/ \E overrun \in 0..MaxDelay : SleepEnds(overrun)

SpecPolling == InitPolling /\ [][NextPolling]_vars

(* The call is made, every status query returns and every sleep ends. *)
FairSpecPolling == SpecPolling /\ WF_vars(NextPolling)

(* The polls before the last one. *)
EarlierPolls == 1..(Len(oPolls) - 1)

(* C23: poll_for_completion has queried the status when it ends; it        *)
(* returns the first status data that is complete; it raises TimeoutError  *)
(* when no polled status is complete, at the first check at which the time *)
(* elapsed is the timeout or more; and the call ends.                      *)
C23_PollForCompletion ==
  /\ [](oAt = "done" =>
          /\ Len(oPolls) >= 1
          /\ \A i \in EarlierPolls :
               /\ ~is_complete_func(oPolls[i].data)
               /\ oPolls[i].at - oStart < oTimeout
          /\ \/ /\ oResult = Return(oPolls[Len(oPolls)].data)
                /\ is_complete_func(oPolls[Len(oPolls)].data)
             \/ /\ oResult = Raise("TimeoutError")
                /\ ~is_complete_func(oPolls[Len(oPolls)].data)
                /\ oPolls[Len(oPolls)].at - oStart >= oTimeout)
  /\ [](oAt \in {"sleep", "status"} =>
          \A i \in 1..Len(oPolls) :
            /\ ~is_complete_func(oPolls[i].data)
            /\ oPolls[i].at - oStart < oTimeout)
  /\ <>(oAt = "done")

(* A call that polled three times without a complete status and raised     *)
(* TimeoutError at the third check, the first past the timeout.            *)
C23_Witness ==
  /\ oAt = "done"
  /\ oResult = Raise("TimeoutError")
  /\ Len(oPolls) = 3
  /\ oTimeout = MaxTimeout
  /\ oPolls[2].at - oStart < oTimeout
  /\ oPolls[3].at - oStart > oTimeout

----------------------------------------------------------------------------
(* The clock readings of a call, with the clock moving between its         *)
(* statements.                                                             *)

(* C24: a call reads the clock at most once.  A create_signature call      *)
(* without a timestamp reads it once, and the t token of its header and    *)
(* the timestamp in the string it signed are that one reading; a           *)
(* verify_signature call that comes to the tolerance test reads it once    *)
(* and accepts or rejects by that reading; parse_event never reads it.     *)
C24_OneClockReading ==
  \A t \in Threads :
    LET th == cThreads[t]
        frame == cFrames[FrameOf(t)]
    IN /\ th.reads <= 1
       /\ (th.at = "done" /\ th.call.op = "create_signature"
             /\ th.call.timestamp = NoneT /\ th.result.kind = "return")
          => /\ th.reads = 1
             /\ frame.text = SignedPayload(th.clock, th.call.payload).val
             /\ th.result.val = FormatHeader(th.clock, frame.hash)
       /\ (th.at = "done" /\ th.call.op = "verify_signature")
          => /\ th.reads = 0 => th.result = Return(FALSE)
             /\ th.reads = 1 =>
                  /\ OutOfTolerance(th.clock, frame.ts, th.call.tolerance)
                       => th.result = Return(FALSE)
                  /\ th.result = Return(TRUE)
                       => ~OutOfTolerance(th.clock, frame.ts, th.call.tolerance)
       /\ th.call.op = "parse_event" => th.reads = 0

(* A create_signature call without a timestamp has returned after the      *)
(* clock moved on from the value it read, and a verify_signature call that *)
(* read the later value has rejected a header on its timestamp.            *)
C24_Witness ==
  /\ cThreads[1].at = "done"
  /\ cThreads[1].call.op = "create_signature"
  /\ cThreads[1].call.timestamp = NoneT
  /\ cThreads[1].result.kind = "return"
  /\ cThreads[1].reads = 1
  /\ cThreads[1].clock < cNow
  /\ cThreads[2].at = "done"
  /\ cThreads[2].call.op = "verify_signature"
  /\ cThreads[2].reads = 1
  /\ cThreads[2].clock = cNow
  /\ OutOfTolerance(cThreads[2].clock, cFrames[2].ts, cThreads[2].call.tolerance)
  /\ cThreads[2].result = Return(FALSE)

----------------------------------------------------------------------------
(* A captured delivery presented to verify_signature again and again, as   *)
(* it was sent or with its t token rewritten, while the clock advances.    *)

MaxReplayTicks == 2
MaxPresentations == 3

(* The payloads captured: "A" and "1.". *)
CapturedPayloads == {Bytes(<<65>>), Bytes(<<cOne, cDot>>)}

(* The texts a t token is rewritten to: the timestamp sent, the second    *)
(* before it and the seconds after it, the first of them with a sign.      *)
RewrittenTimestamps(sent) ==
  IF sent = NoneV THEN {}
  ELSE {IntToStr(n) : n \in {sent.ts - 1, sent.ts, sent.ts + 2}}
         \cup {<<cPlus>> \o IntToStr(sent.ts + 1)}

InitReplay ==
  /\ OnlyReplay
  /\ yNow = 9
  /\ yTicks = 0
  /\ yTolerance \in 0..MaxTolerance
  /\ ySent = NoneV
  /\ yCalls = <<>>

(* time.time() moves on. *)
ReplayTick ==
  /\ yTicks < MaxReplayTicks
  /\ yNow' = yNow + 1
  /\ yTicks' = yTicks + 1
  /\ UNCHANGED <<yTolerance, ySent, yCalls, notReplayVars>>

(* The sender signs a payload with create_signature, and the delivery is   *)
(* captured on its way.                                                    *)
Capture(payload, secret) ==
  LET header == create_signature(payload, secret, NoneT, yNow)
      tokens == Split(header.val, cComma)
  IN /\ ySent = NoneV
     /\ header.kind = "return"
     /\ ySent' = [ty |-> "delivery", payload |-> payload, secret |-> secret,
                  ts |-> yNow, t |-> TokenValue(tokens[1]),
                  v1 |-> tokens[2]]
     /\ UNCHANGED <<yNow, yTicks, yTolerance, yCalls, notReplayVars>>

(* The receiver is handed the captured payload with the header             *)
(* t=<t>,v1=<the digest sent> and calls verify_signature on it.            *)
Present(t) ==
  LET header == Str(Join(<<TPrefix \o t, ySent.v1>>, cComma))
  IN /\ ySent # NoneV
     /\ Len(yCalls) < MaxPresentations
     /\ yCalls' = Append(yCalls,
                    [t |-> t, now |-> yNow,
                     result |-> verify_signature(ySent.payload, header,
                                                 ySent.secret, yTolerance, yNow)])
     /\ UNCHANGED <<yNow, yTicks, yTolerance, ySent, notReplayVars>>

NextReplay ==
  \/ ReplayTick
  \/ \E payload \in CapturedPayloads : Capture(payload, <<107>>)
  \/ \E t \in RewrittenTimestamps(ySent) : Present(t)

SpecReplay == InitReplay /\ [][NextReplay]_vars

(* The timestamps and payloads the signed string is compared over. *)
NearTimestamps == (ySent.ts - 1)..(ySent.ts + 2)
NearPayloads == {Bytes(b) : b \in SeqsUpTo({cOne, cDot, 65}, 2)}

(* C25: the digest binds the timestamp.  Every presentation of the         *)
(* captured payload and digest under a t token whose integer value is not  *)
(* the timestamp signed is rejected, within the tolerance as outside it;   *)
(* and no other pair of timestamp and payload has the signed string of the *)
(* pair that was signed.                                                   *)
C25_DigestBindsTimestamp ==
  ySent # NoneV =>
    /\ \A i \in 1..Len(yCalls) :
         ParseInt(yCalls[i].t).n # ySent.ts => yCalls[i].result = Return(FALSE)
    /\ \A ts \in NearTimestamps, payload \in NearPayloads :
         SignedPayload(ts, payload) = SignedPayload(ySent.ts, ySent.payload)
           => ts = ySent.ts /\ payload = ySent.payload

(* A header whose t token was rewritten to the present time, inside the    *)
(* tolerance, after the timestamp signed had gone stale, was rejected.     *)
C25_Witness ==
  /\ ySent # NoneV
  /\ Len(yCalls) >= 1
  /\ LET call == yCalls[Len(yCalls)]
     IN /\ ParseInt(call.t).n = call.now
        /\ OutOfTolerance(call.now, ySent.ts, yTolerance)
        /\ ~OutOfTolerance(call.now, ParseInt(call.t).n, yTolerance)
        /\ call.result = Return(FALSE)

(* The presentations of the delivery as it was sent. *)
Replays == {i \in 1..Len(yCalls) : yCalls[i].t = ySent.t}

(* C26: replay window.  Of two presentations of the delivery as sent, the  *)
(* later at a clock no earlier: when the first was accepted, the later is  *)
(* accepted if its clock is within the tolerance of the timestamp signed;  *)
(* when the clock of the first is past the timestamp by more than the      *)
(* tolerance, both are rejected.                                           *)
C26_ReplayWindow ==
  ySent # NoneV =>
    \A i \in Replays, j \in Replays :
      i <= j =>
        /\ yCalls[i].now <= yCalls[j].now
        /\ (/\ yCalls[i].result = Return(TRUE)
            /\ Abs(yCalls[j].now - ySent.ts) <= yTolerance)
           => yCalls[j].result = Return(TRUE)
        /\ yCalls[i].now > ySent.ts + yTolerance
           => /\ yCalls[i].result = Return(FALSE)
              /\ yCalls[j].result = Return(FALSE)

(* The delivery was accepted, accepted again a second later, and rejected  *)
(* a second after that, when the tolerance had run out.                    *)
C26_Witness ==
  /\ ySent # NoneV
  /\ Len(yCalls) = 3
  /\ Replays = {1, 2, 3}
  /\ yCalls[1].result = Return(TRUE)
  /\ yCalls[2].result = Return(TRUE)
  /\ yCalls[2].now > yCalls[1].now
  /\ yCalls[3].result = Return(FALSE)
  /\ yCalls[3].now = ySent.ts + yTolerance + 1

----------------------------------------------------------------------------
(* What _make_request raises, what it retries and how long it waits.       *)

(* The last HTTP attempt of the call. *)
LastAttempt == qAttempts[Len(qAttempts)]

(* The outcomes the loop is said to retry: 429, 5xx, network errors and    *)
(* timeouts.                                                               *)
Retriable(outcome) ==
  \/ outcome.kind # "response"
  \/ outcome.status = 429
  \/ outcome.status >= 500

(* C27: a call of _make_request that fails raises NetworkError, or the     *)
(* exception of the class create_error_from_response maps the status of    *)
(* the last response to, and no exception of another type.                 *)
C27_OnlyDocumentedErrors ==
  (qAt = "done" /\ qResult.kind = "raise")
  => \/ qResult.exc = "NetworkError"
     \/ /\ LastAttempt.kind = "response"
        /\ qResult.exc = ErrorClass(LastAttempt.status)

(* C28: only 429, 5xx, network errors and timeouts are retried.  Every     *)
(* attempt but the last came to one of them; a call whose last attempt got *)
(* a 2xx response has returned it, and one whose last attempt got a 3xx or *)
(* a 4xx other than 429 has raised the exception mapped to the status.     *)
C28_OnlyRetriableRetried ==
  /\ \A i \in 1..(Len(qAttempts) - 1) : Retriable(qAttempts[i])
  /\ (qAttempts # <<>> /\ ~Retriable(LastAttempt)) =>
       /\ qAt = "done"
       /\ IF LastAttempt.status \in 200..299
          THEN qResult = Return(LastAttempt.status)
          ELSE qResult = Raise(ErrorClass(LastAttempt.status))

(* The wait the loop is said to make after failed attempt k; a Retry-After *)
(* header that is empty counts as none, and one that is no number gives no *)
(* wait that could be made (-1).                                           *)
BackoffAfter(outcome, k) ==
  IF outcome.kind = "response" /\ outcome.status = 429
  THEN IF ~Falsy(outcome.retry_after)
       THEN LET seconds == ParseFloat(outcome.retry_after.v)
            IN IF seconds.ok THEN Min(seconds.n, MaxWait) ELSE -1
       ELSE Min(RetryDelay * 2^k, MaxWait)
  ELSE RetryDelay * 2^k

(* C29: backoff.  Every failed attempt k that is not the final one is      *)
(* followed by one wait, of retry_delay * 2^k for a 5xx, a network error   *)
(* or a timeout, of min(Retry-After, 60) for a 429 with the header and of  *)
(* min(retry_delay * 2^k, 60) for a 429 without it; the final attempt is   *)
(* followed by none.                                                       *)
C29_Backoff ==
  LET retried(k) == Retriable(qAttempts[k + 1]) /\ k < qMaxRetries
      waitsAfter(k) == {i \in 1..Len(qWaits) : qWaits[i].after = k}
  IN \A k \in 0..(Len(qAttempts) - 1) :
       IF retried(k)
       THEN \E i \in 1..Len(qWaits) :
              /\ waitsAfter(k) = {i}
              /\ qWaits[i].seconds = BackoffAfter(qAttempts[k + 1], k)
       ELSE waitsAfter(k) = {}

====
